---- MODULE Spec2Model ----
(***************************************************************************)
(* A model of the client-side operation pipeline of neptune-client.        *)
(*                                                                         *)
(* OperationsPreprocessor (operations_preprocessor.py) folds a list of     *)
(* operations into one accumulator per attribute path and emits a reduced  *)
(* batch.  A behaviour of the specifications below is one call of          *)
(* process() on a freshly constructed preprocessor, one loop iteration per *)
(* step, interleaved with get_operations() calls.                          *)
(*                                                                         *)
(* Daemon (daemon.py) is the background thread that runs work() in a loop. *)
(* A behaviour of the daemon specifications interleaves the statements of  *)
(* run() with those of pause(), resume(), interrupt(), wake_up() and       *)
(* disable_sleep() calls made by other threads.                            *)
(***************************************************************************)
EXTENDS Integers, Sequences, FiniteSets, TLC

VARIABLES
    accumulators,          \* OperationsPreprocessor._accumulators, in dict insertion order
    processed_ops_count,   \* OperationsPreprocessor.processed_ops_count
    operations,            \* the prefix of process()'s argument the loop has taken so far
    raised,                \* the exception that left process(), "None" while it runs
    result,                \* the batch the last get_operations() returned, NoResult after
                           \* the caller went on to fold more operations
    state,                 \* Daemon._state
    sleep_time,            \* Daemon._sleep_time
    last_backoff_time,     \* Daemon.last_backoff_time
    wrapped,               \* whether work() is decorated with ConnectionRetryWrapper
    pc,                    \* where the daemon thread is in run()
    start_state,           \* the local start_state of run()
    run_exc,               \* the exception that left run(), "None" if none did
    scn_lock,              \* holder of _state_change_notice_condition's lock, or "free"
    wc_lock,               \* holder of _wait_condition's lock, or "free"
    caller_pc,             \* where each calling thread is in its call, "idle" outside
    store,                 \* the attributes of the container in NeptuneBackendMock, by path
    attempted,             \* the operations execute_operations() has gone through
    failures,              \* the result list of execute_operations()
    returned,              \* what execute_operations() returned, NotReturned before
    read,                  \* the outcome of the last _get_attribute(), NotRead before
    enqueued,              \* the operations enqueue_operation() was called with, in call order
    batches,               \* the lists the backend of SyncOperationProcessor was given
    completed,             \* the operations whose enqueue_operation() has returned
    sync_call              \* each producer's call of enqueue_operation(), "idle" outside

pvars == <<accumulators, processed_ops_count, operations, raised, result>>

dvars == <<state, sleep_time, last_backoff_time, wrapped, pc, start_state, run_exc,
           scn_lock, wc_lock, caller_pc>>

bvars == <<store, attempted, failures, returned, read>>

svars == <<enqueued, batches, completed, sync_call>>

vars == <<accumulators, processed_ops_count, operations, raised, result,
          state, sleep_time, last_backoff_time, wrapped, pc, start_state, run_exc,
          scn_lock, wc_lock, caller_pc,
          store, attempted, failures, returned, read,
          enqueued, batches, completed, sync_call>>

(***************************************************************************)
(* Bounds of the model.                                                    *)
(***************************************************************************)
MaxOps == 4

(***************************************************************************)
(* Strings are sequences of character codes, so that their order is the    *)
(* order Python's sorted() uses.  A path is a sequence of segments.        *)
(***************************************************************************)
SegA == <<97>>
SegB == <<98>>
SegADash == <<97, 45>>
Slash == <<47>>

PathA == <<SegA>>
PathAB == <<SegA, SegB>>
PathADash == <<SegADash>>

RECURSIVE path_to_str(_)
path_to_str(path) ==
    IF Len(path) = 0 THEN <<>>
    ELSE IF Len(path) = 1 THEN path[1]
    ELSE path[1] \o Slash \o path_to_str(Tail(path))

\* Python's str.__lt__: code point by code point, a proper prefix is smaller.
RECURSIVE StrLess(_, _)
StrLess(s, t) ==
    IF Len(t) = 0 THEN FALSE
    ELSE IF Len(s) = 0 THEN TRUE
    ELSE IF s[1] # t[1] THEN s[1] < t[1]
    ELSE StrLess(Tail(s), Tail(t))

(***************************************************************************)
(* Operations.  Every operation is a record of the same shape: value is    *)
(* the payload of an Assign, values the points of a Log (or the min, max,  *)
(* unit of a ConfigFloatSeries), items the strings of an Add or Remove.    *)
(***************************************************************************)
Op(kind, path, value, values, items) ==
    [kind |-> kind, path |-> path, value |-> value, values |-> values, items |-> items]

AssignFloat(path, v) == Op("AssignFloat", path, v, <<>>, {})
AssignInt(path, v) == Op("AssignInt", path, v, <<>>, {})
AssignBool(path, v) == Op("AssignBool", path, v, <<>>, {})
AssignString(path, v) == Op("AssignString", path, v, <<>>, {})
AssignDatetime(path, v) == Op("AssignDatetime", path, v, <<>>, {})
LogFloats(path, vs) == Op("LogFloats", path, 0, vs, {})
LogStrings(path, vs) == Op("LogStrings", path, 0, vs, {})
ClearFloatLog(path) == Op("ClearFloatLog", path, 0, <<>>, {})
ClearStringLog(path) == Op("ClearStringLog", path, 0, <<>>, {})
AddStrings(path, s) == Op("AddStrings", path, 0, <<>>, s)
RemoveStrings(path, s) == Op("RemoveStrings", path, 0, <<>>, s)
ClearStringSet(path) == Op("ClearStringSet", path, 0, <<>>, {})
ConfigFloatSeries(path, mn, mx, unit) == Op("ConfigFloatSeries", path, 0, <<mn, mx, unit>>, {})
DeleteAttribute(path) == Op("DeleteAttribute", path, 0, <<>>, {})
CopyAttribute(path) == Op("CopyAttribute", path, 0, <<>>, {})

AssignKinds == {"AssignFloat", "AssignInt", "AssignBool", "AssignString", "AssignDatetime"}
LogKinds == {"LogFloats", "LogStrings"}
ClearLogKinds == {"ClearFloatLog", "ClearStringLog"}
SetKinds == {"AddStrings", "RemoveStrings", "ClearStringSet"}
ModifyKinds == AssignKinds \cup LogKinds \cup ClearLogKinds \cup SetKinds
ConfigKinds == {"ConfigFloatSeries"}

(***************************************************************************)
(* _DataType, by the enum's values; NoType is Python's None.               *)
(***************************************************************************)
NoType == "None"
DataType_FLOAT == "Float"
DataType_INT == "Int"
DataType_BOOL == "Bool"
DataType_STRING == "String"
DataType_DATETIME == "Datetime"
DataType_FLOAT_SERIES == "Float Series"
DataType_STRING_SERIES == "String Series"
DataType_STRING_SET == "String Set"

\* The expected_type each visit_* method passes on.
ExpectedType(kind) ==
    CASE kind = "AssignFloat" -> DataType_FLOAT
      [] kind = "AssignInt" -> DataType_INT
      [] kind = "AssignBool" -> DataType_BOOL
      [] kind = "AssignString" -> DataType_STRING
      [] kind = "AssignDatetime" -> DataType_DATETIME
      [] kind \in {"LogFloats", "ClearFloatLog", "ConfigFloatSeries"} -> DataType_FLOAT_SERIES
      [] kind \in {"LogStrings", "ClearStringLog"} -> DataType_STRING_SERIES
      [] kind \in SetKinds -> DataType_STRING_SET
      [] OTHER -> NoType

(***************************************************************************)
(* _OperationsAccumulator                                                  *)
(***************************************************************************)
NewAccumulator(path) ==
    [path |-> path, type |-> NoType, delete_ops |-> <<>>, modify_ops |-> <<>>,
     config_ops |-> <<>>, errors |-> <<>>]

\* A variant that lists the config operations before the modify operations.
acc_get_operations_config_first(acc) == acc.delete_ops \o acc.config_ops \o acc.modify_ops

acc_get_operations(acc) == acc.delete_ops \o acc.modify_ops \o acc.config_ops

acc_get_errors(acc) == acc.errors

\* MetadataInconsistency("Cannot perform {} operation on {}: Attribute is not a {}")
MetadataInconsistency(op, path, expected_type) ==
    [op |-> op.kind, path |-> path_to_str(path), type |-> expected_type]

\* What a visit leaves behind: the accumulator and the exception it raised.
Visited(acc, exc) == [acc |-> acc, exc |-> exc]

\* A variant that keeps what is held instead of replacing it.
assign_modifier_keep_first(ops, new_op) ==
    [ops |-> IF Len(ops) = 0 THEN <<new_op>> ELSE ops, exc |-> "None"]

assign_modifier(ops, new_op) == [ops |-> <<new_op>>, exc |-> "None"]

\* A variant that keeps what is held and appends the Clear.
clear_modifier_appends(ops, new_op) == [ops |-> Append(ops, new_op), exc |-> "None"]

clear_modifier(ops, new_op) == [ops |-> <<new_op>>, exc |-> "None"]

\* A variant whose merge puts the new points first.
log_combine_reversed(log_op_class, op1, op2) ==
    Op(log_op_class, op1.path, 0, op2.values \o op1.values, {})

\* lambda op1, op2: LogFloats(op1.path, op1.values + op2.values), and the same
\* for LogStrings: the merged operation is built by the class, on op1's path.
log_combine(log_op_class, op1, op2) ==
    Op(log_op_class, op1.path, 0, op1.values \o op2.values, {})

\* A variant that appends after a Clear instead of merging into the held Log.
log_modifier_appends(log_op_class, clear_op_class, ops, new_op) ==
    IF Len(ops) = 0 THEN [ops |-> <<new_op>>, exc |-> "None"]
    ELSE IF Len(ops) = 1 /\ ops[1].kind = log_op_class
        THEN [ops |-> <<log_combine(log_op_class, ops[1], new_op)>>, exc |-> "None"]
    ELSE [ops |-> Append(ops, new_op), exc |-> "None"]

log_modifier(log_op_class, clear_op_class, ops, new_op) ==
    IF Len(ops) = 0 THEN [ops |-> <<new_op>>, exc |-> "None"]
    ELSE IF Len(ops) = 1 /\ ops[1].kind = log_op_class
        THEN [ops |-> <<log_combine(log_op_class, ops[1], new_op)>>, exc |-> "None"]
    ELSE IF Len(ops) = 1 /\ ops[1].kind = clear_op_class
        THEN [ops |-> <<ops[1], new_op>>, exc |-> "None"]
    ELSE IF Len(ops) = 2
        THEN [ops |-> <<ops[1], log_combine(log_op_class, ops[2], new_op)>>, exc |-> "None"]
    ELSE [ops |-> ops, exc |-> "InternalClientError"]

\* A variant that merges an Add into an Add held last, as the log modifier does.
add_modifier_merges(ops, op) ==
    IF Len(ops) > 0 /\ ops[Len(ops)].kind = op.kind
    THEN [ops |-> [ops EXCEPT ![Len(ops)].items = @ \cup op.items], exc |-> "None"]
    ELSE [ops |-> Append(ops, op), exc |-> "None"]

add_modifier(ops, op) == [ops |-> Append(ops, op), exc |-> "None"]

\* Variant: the Remove is dropped.
remove_modifier_drops(ops, op) == [ops |-> ops, exc |-> "None"]

remove_modifier(ops, op) == [ops |-> Append(ops, op), exc |-> "None"]

\* The modifier each visit_* method builds for its operation.
Modifier(ops, op) ==
    CASE op.kind \in AssignKinds -> assign_modifier(ops, op)
      [] op.kind = "LogFloats" -> log_modifier("LogFloats", "ClearFloatLog", ops, op)
      [] op.kind = "LogStrings" -> log_modifier("LogStrings", "ClearStringLog", ops, op)
      [] op.kind \in ClearLogKinds \cup {"ClearStringSet"} -> clear_modifier(ops, op)
      [] op.kind = "AddStrings" -> add_modifier(ops, op)
      [] op.kind = "RemoveStrings" -> remove_modifier(ops, op)

\* A variant that records the error and applies the modifier all the same.
process_modify_op_no_else(acc, expected_type, op) ==
    LET m == Modifier(acc.modify_ops, op)
        errs == IF acc.type # NoType /\ acc.type # expected_type
                THEN Append(acc.errors, MetadataInconsistency(op, acc.path, expected_type))
                ELSE acc.errors
    IN  Visited([acc EXCEPT !.type = expected_type, !.modify_ops = m.ops, !.errors = errs],
                m.exc)

\* A variant that raises the inconsistency instead of recording it.
process_modify_op_raises(acc, expected_type, op) ==
    IF acc.type # NoType /\ acc.type # expected_type
    THEN Visited(acc, "MetadataInconsistency")
    ELSE LET m == Modifier(acc.modify_ops, op)
         IN  Visited([acc EXCEPT !.type = expected_type, !.modify_ops = m.ops], m.exc)

process_modify_op(acc, expected_type, op) ==
    IF acc.type # NoType /\ acc.type # expected_type
    THEN Visited([acc EXCEPT !.errors =
                      Append(@, MetadataInconsistency(op, acc.path, expected_type))], "None")
    ELSE LET m == Modifier(acc.modify_ops, op)
         IN  Visited([acc EXCEPT !.type = expected_type, !.modify_ops = m.ops], m.exc)

process_config_op(acc, expected_type, op) ==
    IF acc.type # NoType /\ acc.type # expected_type
    THEN Visited([acc EXCEPT !.errors =
                      Append(@, MetadataInconsistency(op, acc.path, expected_type))], "None")
    ELSE Visited([acc EXCEPT !.type = expected_type, !.config_ops = <<op>>], "None")

\* A variant without the "if self._delete_ops" test of the first branch.
visit_delete_attribute_rebuild(acc, op) ==
    IF acc.type # NoType
    THEN IF Len(acc.modify_ops) = 0
         THEN Visited(acc, "IndexError")
         ELSE Visited([acc EXCEPT !.delete_ops = <<acc.modify_ops[1], op>>,
                                  !.modify_ops = <<>>, !.config_ops = <<>>,
                                  !.type = NoType], "None")
    ELSE IF Len(acc.delete_ops) > 0
         THEN Visited(acc, "None")
         ELSE Visited([acc EXCEPT !.delete_ops = Append(@, op)], "None")

\* A variant without the "if self._delete_ops" test of the second branch.
visit_delete_attribute_append(acc, op) ==
    IF acc.type # NoType
    THEN IF Len(acc.delete_ops) > 0
         THEN Visited([acc EXCEPT !.modify_ops = <<>>, !.config_ops = <<>>,
                                  !.type = NoType], "None")
         ELSE IF Len(acc.modify_ops) = 0
              THEN Visited(acc, "IndexError")
              ELSE Visited([acc EXCEPT !.delete_ops = <<acc.modify_ops[1], op>>,
                                       !.modify_ops = <<>>, !.config_ops = <<>>,
                                       !.type = NoType], "None")
    ELSE Visited([acc EXCEPT !.delete_ops = Append(@, op)], "None")

\* A variant that forgets to reset the inferred type.
visit_delete_attribute_keeps_type(acc, op) ==
    IF acc.type # NoType
    THEN IF Len(acc.delete_ops) > 0
         THEN Visited([acc EXCEPT !.modify_ops = <<>>, !.config_ops = <<>>], "None")
         ELSE IF Len(acc.modify_ops) = 0
              THEN Visited(acc, "IndexError")
              ELSE Visited([acc EXCEPT !.delete_ops = <<acc.modify_ops[1], op>>,
                                       !.modify_ops = <<>>, !.config_ops = <<>>], "None")
    ELSE IF Len(acc.delete_ops) > 0
         THEN Visited(acc, "None")
         ELSE Visited([acc EXCEPT !.delete_ops = Append(@, op)], "None")

visit_delete_attribute(acc, op) ==
    IF acc.type # NoType
    THEN IF Len(acc.delete_ops) > 0
         THEN Visited([acc EXCEPT !.modify_ops = <<>>, !.config_ops = <<>>,
                                  !.type = NoType], "None")
         ELSE IF Len(acc.modify_ops) = 0
              THEN Visited(acc, "IndexError")   \* self._modify_ops[0] on an empty list
              ELSE Visited([acc EXCEPT !.delete_ops = <<acc.modify_ops[1], op>>,
                                       !.modify_ops = <<>>, !.config_ops = <<>>,
                                       !.type = NoType], "None")
    ELSE IF Len(acc.delete_ops) > 0
         THEN Visited(acc, "None")
         ELSE Visited([acc EXCEPT !.delete_ops = Append(@, op)], "None")

visit_copy_attribute(acc, op) == Visited(acc, "MetadataInconsistency")

\* OperationVisitor.visit: the dispatch on the operation's class.
visit(acc, op) ==
    CASE op.kind \in ModifyKinds -> process_modify_op(acc, ExpectedType(op.kind), op)
      [] op.kind \in ConfigKinds -> process_config_op(acc, ExpectedType(op.kind), op)
      [] op.kind = "DeleteAttribute" -> visit_delete_attribute(acc, op)
      [] op.kind = "CopyAttribute" -> visit_copy_attribute(acc, op)

(***************************************************************************)
(* OperationsPreprocessor                                                  *)
(***************************************************************************)
\* The position of key in the dict, 0 when it is absent.
KeyIndex(accs, key) ==
    IF \E i \in 1..Len(accs) : accs[i].key = key
    THEN CHOOSE i \in 1..Len(accs) : accs[i].key = key
    ELSE 0

\* Variant: a new key replaces the dict by one that holds this key alone.
setdefault_alone(accs, key, default) ==
    IF KeyIndex(accs, key) = 0 THEN <<[key |-> key, acc |-> default]>> ELSE accs

\* dict.setdefault: a new key goes to the end of the insertion order.
setdefault(accs, key, default) ==
    IF KeyIndex(accs, key) = 0 THEN Append(accs, [key |-> key, acc |-> default]) ELSE accs

\* _process_op: the accumulators after the visit, and the exception it raised.
process_op(accs, op) ==
    LET path_str == path_to_str(op.path)
        accs1 == setdefault(accs, path_str, NewAccumulator(op.path))
        i == KeyIndex(accs1, path_str)
        v == visit(accs1[i].acc, op)
    IN  [accs |-> [accs1 EXCEPT ![i].acc = v.acc], exc |-> v.exc]

\* sorted(self._accumulators.items()): insertion of each item before the first
\* item with a greater key (the keys of a dict are distinct).
RECURSIVE InsertSorted(_, _)
InsertSorted(item, sorted) ==
    IF Len(sorted) = 0 THEN <<item>>
    ELSE IF StrLess(item.key, sorted[1].key) THEN <<item>> \o sorted
    ELSE <<sorted[1]>> \o InsertSorted(item, Tail(sorted))

RECURSIVE SortedItems(_)
SortedItems(accs) ==
    IF Len(accs) = 0 THEN <<>>
    ELSE InsertSorted(accs[Len(accs)], SortedItems(SubSeq(accs, 1, Len(accs) - 1)))

RECURSIVE Collect(_)
Collect(items) ==
    IF Len(items) = 0
    THEN [upload_operations |-> <<>>, other_operations |-> <<>>, errors |-> <<>>]
    ELSE LET rest == Collect(SubSeq(items, 1, Len(items) - 1))
             acc == items[Len(items)].acc
         IN  [upload_operations |-> rest.upload_operations,
              other_operations |-> rest.other_operations \o acc_get_operations(acc),
              errors |-> rest.errors \o acc_get_errors(acc)]

\* A variant that iterates the dict in insertion order, without sorted().
get_operations_unsorted(accs) == Collect(accs)

get_operations(accs) == Collect(SortedItems(accs))

NoResult == [upload_operations |-> <<>>, other_operations |-> <<>>, errors |-> <<>>,
             returned |-> FALSE]

Returned(batch) ==
    [upload_operations |-> batch.upload_operations,
     other_operations |-> batch.other_operations,
     errors |-> batch.errors, returned |-> TRUE]

(***************************************************************************)
(* The state machine.                                                      *)
(***************************************************************************)
\* OperationsPreprocessor.__init__
PreprocessorInit ==
    /\ accumulators = <<>>
    /\ processed_ops_count = 0
    /\ operations = <<>>
    /\ raised = "None"
    /\ result = NoResult

Callers == {"c1", "c2"}

\* Daemon.__init__; the thread is not started.
DaemonConstructed(sleep, wrap) ==
    /\ state = "INIT"
    /\ sleep_time = sleep
    /\ last_backoff_time = 0
    /\ wrapped = wrap
    /\ pc = "init"
    /\ start_state = "INIT"
    /\ run_exc = "None"
    /\ scn_lock = "free"
    /\ wc_lock = "free"
    /\ caller_pc = [c \in Callers |-> "idle"]

\* The paths the backend is given. PathA is a prefix of PathAB: while PathAB
\* holds an attribute, PathA denotes a namespace.
BackendPaths == {PathA, PathADash, PathAB}

\* run.get(path) is None: the container holds nothing at the path.
NoValue == [type |-> "None"]

NotReturned == [done |-> FALSE]

NotRead == [done |-> FALSE]

\* A container as _create_container leaves it, seen at the paths outside its
\* sys namespace; no execute_operations() call has been made.
BackendInit ==
    /\ store = [p \in BackendPaths |-> NoValue]
    /\ attempted = <<>>
    /\ failures = <<>>
    /\ returned = NotReturned
    /\ read = NotRead

\* The threads that call enqueue_operation().
Producers == {"t1", "t2"}

\* No call of enqueue_operation() is made.
NoCall == [pc |-> "idle"]

\* A SyncOperationProcessor as __init__ leaves it: it holds the backend, and
\* no operation was given to it.
SyncInit ==
    /\ enqueued = <<>>
    /\ batches = <<>>
    /\ completed = <<>>
    /\ sync_call = [t \in Producers |-> NoCall]

\* The preprocessor specifications: a fresh preprocessor, beside a daemon that
\* is never started and a backend that is never called.
Init ==
    /\ PreprocessorInit
    /\ SyncInit
    /\ DaemonConstructed(1, FALSE)
    /\ BackendInit

\* A variant that counts the operation before folding it.
Process_counts_first(op) ==
    /\ raised = "None"
    /\ Len(operations) < MaxOps
    /\ LET r == process_op(accumulators, op)
       IN  /\ accumulators' = r.accs
           /\ raised' = r.exc
    /\ processed_ops_count' = processed_ops_count + 1
    /\ operations' = Append(operations, op)
    /\ result' = NoResult
    /\ UNCHANGED dvars
    /\ UNCHANGED bvars
    /\ UNCHANGED svars

\* One iteration of the loop of process(): an exception of _process_op leaves
\* the loop before processed_ops_count is incremented.  No visit_* method raises
\* RequiresPreviousCompleted, the one exception the loop catches, so whatever is
\* raised propagates to the caller of process().
Process(op) ==
    /\ raised = "None"
    /\ Len(operations) < MaxOps
    /\ LET r == process_op(accumulators, op)
       IN  /\ accumulators' = r.accs
           /\ raised' = r.exc
           /\ processed_ops_count' =
                  IF r.exc = "None" THEN processed_ops_count + 1 ELSE processed_ops_count
    /\ operations' = Append(operations, op)
    /\ result' = NoResult
    /\ UNCHANGED dvars
    /\ UNCHANGED bvars
    /\ UNCHANGED svars

\* A variant that empties the accumulators it has read.
GetOperations_drains ==
    /\ result' = Returned(get_operations(accumulators))
    /\ accumulators' = <<>>
    /\ UNCHANGED <<processed_ops_count, operations, raised>>
    /\ UNCHANGED dvars
    /\ UNCHANGED bvars
    /\ UNCHANGED svars

GetOperations ==
    /\ result' = Returned(get_operations(accumulators))
    /\ UNCHANGED <<accumulators, processed_ops_count, operations, raised>>
    /\ UNCHANGED dvars
    /\ UNCHANGED bvars
    /\ UNCHANGED svars

(***************************************************************************)
(* Inputs of process().  Spec folds scalar operations over three paths     *)
(* whose canonical strings order differently from their segment lists; the *)
(* other specifications fold one family of operations, or all kinds, on    *)
(* one path.                                                               *)
(***************************************************************************)
Paths == {PathA, PathAB, PathADash}

CrossPathOps ==
    UNION {{AssignFloat(p, 1), AssignString(p, 1), DeleteAttribute(p)} : p \in Paths}
        \cup {CopyAttribute(PathAB)}

ScalarOps ==
    {AssignFloat(PathA, 1), AssignFloat(PathA, 2), AssignInt(PathA, 1), AssignBool(PathA, 1),
     AssignString(PathA, 1), AssignString(PathA, 2), AssignDatetime(PathA, 1),
     DeleteAttribute(PathA), CopyAttribute(PathA)}

SeriesOps ==
    {LogFloats(PathA, <<1>>), LogFloats(PathA, <<2, 3>>), LogStrings(PathA, <<1>>),
     LogStrings(PathA, <<2, 3>>), ClearFloatLog(PathA), ClearStringLog(PathA),
     ConfigFloatSeries(PathA, 1, 2, 3), DeleteAttribute(PathA), AssignFloat(PathA, 1)}

SetOps ==
    {AddStrings(PathA, {1}), AddStrings(PathA, {2, 3}), RemoveStrings(PathA, {1}),
     RemoveStrings(PathA, {2}), ClearStringSet(PathA), DeleteAttribute(PathA),
     AssignString(PathA, 1), LogStrings(PathA, <<1>>)}

AnyOps ==
    {AssignFloat(PathA, 1), AssignInt(PathA, 1), AssignBool(PathA, 1), AssignString(PathA, 1),
     AssignDatetime(PathA, 1), LogFloats(PathA, <<1>>), LogStrings(PathA, <<1>>),
     ClearFloatLog(PathA), ClearStringLog(PathA), AddStrings(PathA, {1}),
     RemoveStrings(PathA, {1}), ClearStringSet(PathA), ConfigFloatSeries(PathA, 1, 2, 3),
     DeleteAttribute(PathA), CopyAttribute(PathA)}

Next ==
    \/ \E op \in CrossPathOps : Process(op)
    \/ GetOperations

Spec == Init /\ [][Next]_vars

NextScalar ==
    \/ \E op \in ScalarOps : Process(op)
    \/ GetOperations

SpecScalar == Init /\ [][NextScalar]_vars

NextSeries ==
    \/ \E op \in SeriesOps : Process(op)
    \/ GetOperations

SpecSeries == Init /\ [][NextSeries]_vars

NextSet ==
    \/ \E op \in SetOps : Process(op)
    \/ GetOperations

SpecSet == Init /\ [][NextSet]_vars

NextAny == \E op \in AnyOps : Process(op)

SpecAny == Init /\ [][NextAny]_vars

(***************************************************************************)
(* Vocabulary of the properties.                                           *)
(***************************************************************************)
\* The accumulator of a path; a path never seen has a fresh one.
AccOf(accs, path) ==
    LET i == KeyIndex(accs, path_to_str(path))
    IN  IF i = 0 THEN NewAccumulator(path) ELSE accs[i].acc

\* A step that is one iteration of process(), the operation it takes, and the
\* accumulator of that operation's path before and after the step.
Folding == Len(operations') = Len(operations) + 1
FoldedOp == operations'[Len(operations')]
Pre == AccOf(accumulators, FoldedOp.path)
Post == AccOf(accumulators', FoldedOp.path)

\* The folded operation requires a type other than the one the path has.
Mismatch ==
    /\ FoldedOp.kind \in ModifyKinds \cup ConfigKinds
    /\ Pre.type # NoType
    /\ Pre.type # ExpectedType(FoldedOp.kind)

OnPath(ops, key) == SelectSeq(ops, LAMBDA o : path_to_str(o.path) = key)

ErrorsOnPath(errs, key) == SelectSeq(errs, LAMBDA e : e.path = key)

\* C1: the batch get_operations() returns lists the operations path by path in
\* ascending order of the canonical path string, whatever the order in which
\* the paths arrived, each path contributing what its accumulator holds; the
\* errors follow the same path order.
C1_BatchInPathOrder ==
    result.returned =>
        /\ \A i, j \in 1..Len(result.other_operations) :
               i < j => ~StrLess(path_to_str(result.other_operations[j].path),
                                 path_to_str(result.other_operations[i].path))
        /\ \A i, j \in 1..Len(result.errors) :
               i < j => ~StrLess(result.errors[j].path, result.errors[i].path)
        /\ \A k \in 1..Len(accumulators) :
               /\ OnPath(result.other_operations, accumulators[k].key)
                      = acc_get_operations(accumulators[k].acc)
               /\ ErrorsOnPath(result.errors, accumulators[k].key)
                      = acc_get_errors(accumulators[k].acc)

\* Two paths arrived in descending order, each emits an operation and an error.
C1_Witness ==
    /\ result.returned
    /\ Len(accumulators) = 2
    /\ StrLess(accumulators[2].key, accumulators[1].key)
    /\ \A k \in 1..2 : /\ accumulators[k].acc.modify_ops # <<>>
                        /\ accumulators[k].acc.errors # <<>>
    /\ Len(result.other_operations) = 2
    /\ Len(result.errors) = 2

\* C2: folding a modify or configure operation on a path whose inferred type is
\* set and differs from the required one appends exactly one
\* MetadataInconsistency to the path's errors and leaves the type, delete_ops,
\* modify_ops and config_ops as they were, so the operation is not emitted.
C2_MismatchOnlyRecorded ==
    [][(Folding /\ Mismatch) =>
          /\ Post.errors = Append(Pre.errors,
                 [op |-> FoldedOp.kind, path |-> path_to_str(FoldedOp.path),
                  type |-> ExpectedType(FoldedOp.kind)])
          /\ Post.type = Pre.type
          /\ Post.delete_ops = Pre.delete_ops
          /\ Post.modify_ops = Pre.modify_ops
          /\ Post.config_ops = Pre.config_ops
          /\ acc_get_operations(Post) = acc_get_operations(Pre)]_vars

\* A LogFloats was rejected on a path that holds an AssignString.
C2_Witness ==
    /\ operations = <<AssignString(PathA, 1), LogFloats(PathA, <<1>>)>>
    /\ AccOf(accumulators, PathA).modify_ops = <<AssignString(PathA, 1)>>
    /\ Len(AccOf(accumulators, PathA).errors) = 1

\* C3: a type mismatch does not stop process(): the step that rejects an
\* operation counts it and raises nothing, so the loop goes on, and
\* processed_ops_count is the number of operations taken, less the one that
\* raised if one did.
C3_Counted ==
    processed_ops_count = IF raised = "None" THEN Len(operations) ELSE Len(operations) - 1

C3_MismatchDoesNotStop ==
    [][/\ (Folding /\ Mismatch) =>
              /\ raised' = "None"
              /\ processed_ops_count' = processed_ops_count + 1
       /\ C3_Counted']_vars

\* After a rejected AssignString, a Delete on the same path and an Assign on
\* another path were folded, and all four operations were counted.
C3_Witness ==
    /\ operations = <<AssignFloat(PathA, 1), AssignString(PathA, 1),
                      DeleteAttribute(PathA), AssignString(PathAB, 1)>>
    /\ processed_ops_count = 4
    /\ Len(AccOf(accumulators, PathA).errors) = 1
    /\ AccOf(accumulators, PathA).delete_ops = <<AssignFloat(PathA, 1), DeleteAttribute(PathA)>>
    /\ AccOf(accumulators, PathAB).modify_ops = <<AssignString(PathAB, 1)>>

DeleteStep == Folding /\ FoldedOp.kind = "DeleteAttribute"

\* What the preprocessor emits for the accumulators it holds.
Emitted(accs) == get_operations(accs).other_operations

\* C4: folding a Delete on a path whose inferred type is set and which holds no
\* delete makes delete_ops [first held modify operation, the Delete], empties
\* modify_ops and config_ops and resets the inferred type.
C4_DeleteKeepsFirstModify ==
    [][(DeleteStep /\ Pre.type # NoType /\ Pre.delete_ops = <<>>) =>
          /\ Post.type = NoType
          /\ Post.modify_ops = <<>>
          /\ Post.config_ops = <<>>
          /\ Len(Pre.modify_ops) > 0
          /\ Post.delete_ops = <<Pre.modify_ops[1], FoldedOp>>]_vars

\* C5: a Delete that is folded leaves the inferred type unset; a modify
\* operation of any type folded next is accepted without error and emitted
\* after the held delete operations, so that [modify, Delete, modify] on one
\* path is emitted unchanged with no error, whatever the two types.
C5_Scenario(ops) ==
    /\ Len(ops) = 3
    /\ ops[1].kind \in ModifyKinds
    /\ ops[2].kind = "DeleteAttribute"
    /\ ops[3].kind \in ModifyKinds

C5_DeleteResetsType ==
    [][/\ (DeleteStep /\ raised' = "None") => Post.type = NoType
       /\ (Folding /\ FoldedOp.kind \in ModifyKinds /\ Pre.type = NoType) =>
              /\ Post.errors = Pre.errors
              /\ Post.type = ExpectedType(FoldedOp.kind)
              /\ acc_get_operations(Post) = Append(Pre.delete_ops, FoldedOp)
       /\ C5_Scenario(operations') =>
              /\ Emitted(accumulators') = operations'
              /\ get_operations(accumulators').errors = <<>>]_vars

C5_Witness ==
    /\ operations = <<AssignFloat(PathA, 1), DeleteAttribute(PathA), AssignString(PathA, 1)>>
    /\ Emitted(accumulators) = operations
    /\ AccOf(accumulators, PathA).type = DataType_STRING
    /\ AccOf(accumulators, PathA).errors = <<>>

\* C6: folding a Delete on a path that holds a delete and whose inferred type
\* is set discards the modify and config operations folded since, resets the
\* type and leaves delete_ops as it was; [Delete, AssignFloat, Delete] emits
\* only [Delete].
C6_SecondDeleteDiscards ==
    [][/\ (DeleteStep /\ Pre.type # NoType /\ Pre.delete_ops # <<>>) =>
              /\ Post.modify_ops = <<>>
              /\ Post.config_ops = <<>>
              /\ Post.type = NoType
              /\ Post.delete_ops = Pre.delete_ops
              /\ Post.errors = Pre.errors
              /\ raised' = "None"
       /\ operations' = <<DeleteAttribute(PathA), AssignFloat(PathA, 1),
                          DeleteAttribute(PathA)>> =>
              Emitted(accumulators') = <<DeleteAttribute(PathA)>>]_vars

C6_Witness ==
    /\ operations = <<DeleteAttribute(PathA), AssignFloat(PathA, 1), DeleteAttribute(PathA)>>
    /\ Emitted(accumulators) = <<DeleteAttribute(PathA)>>
    /\ AccOf(accumulators, PathA).type = NoType

\* C7: folding a Delete on a path whose inferred type is unset and which holds
\* a delete changes nothing; any number of Deletes on a fresh path emit one
\* Delete.
C7_OnlyDeletes(ops) ==
    /\ Len(ops) >= 1
    /\ \A i \in 1..Len(ops) : ops[i] = DeleteAttribute(PathA)

C7_DeleteIdempotent ==
    [][/\ (DeleteStep /\ Pre.type = NoType /\ Pre.delete_ops # <<>>) =>
              /\ accumulators' = accumulators
              /\ raised' = "None"
       /\ C7_OnlyDeletes(operations') =>
              Emitted(accumulators') = <<DeleteAttribute(PathA)>>]_vars

C7_Witness ==
    /\ operations = <<DeleteAttribute(PathA), DeleteAttribute(PathA), DeleteAttribute(PathA)>>
    /\ AccOf(accumulators, PathA).delete_ops = <<DeleteAttribute(PathA)>>
    /\ processed_ops_count = 3

\* C8, as claimed: after any sequence of Assigns on one path, modify_ops holds
\* only the last Assign of the sequence and the inferred type is its type.
C8_OnlyAssigns(ops) ==
    /\ Len(ops) >= 1
    /\ \A i \in 1..Len(ops) : ops[i].kind \in AssignKinds /\ ops[i].path = PathA

C8_LastAssignRetained ==
    C8_OnlyAssigns(operations) =>
        /\ AccOf(accumulators, PathA).modify_ops = <<operations[Len(operations)]>>
        /\ AccOf(accumulators, PathA).type = ExpectedType(operations[Len(operations)].kind)

\* C8, amended: after any sequence of Assigns on one path, modify_ops holds
\* only the last Assign that has the type of the first one, the inferred type
\* is that type, and each Assign of another type is recorded as one error and
\* not retained.
C8_Accepted(ops) == SelectSeq(ops, LAMBDA o : o.kind = ops[1].kind)

C8_LastMatchingAssignRetained ==
    C8_OnlyAssigns(operations) =>
        LET acc == AccOf(accumulators, PathA)
            accepted == C8_Accepted(operations)
        IN  /\ acc.modify_ops = <<accepted[Len(accepted)]>>
            /\ acc.type = ExpectedType(operations[1].kind)
            /\ Len(acc.errors) = Len(operations) - Len(accepted)
            /\ acc.delete_ops = <<>>
            /\ acc.config_ops = <<>>

C8_Witness ==
    /\ operations = <<AssignFloat(PathA, 1), AssignString(PathA, 1), AssignFloat(PathA, 2)>>
    /\ AccOf(accumulators, PathA).modify_ops = <<AssignFloat(PathA, 2)>>
    /\ AccOf(accumulators, PathA).type = DataType_FLOAT

\* The points of a sequence of Log operations, in arrival order.
RECURSIVE ConcatValues(_)
ConcatValues(ops) ==
    IF Len(ops) = 0 THEN <<>> ELSE ops[1].values \o ConcatValues(Tail(ops))

\* C9: consecutive Log operations of one series type on a fresh path are
\* emitted as one Log whose points are the inputs' points in arrival order.
C9_OnlyLogs(ops, kind) ==
    /\ Len(ops) >= 1
    /\ \A i \in 1..Len(ops) : ops[i].kind = kind /\ ops[i].path = PathA

C9_LogsMerged ==
    \A kind \in LogKinds :
        C9_OnlyLogs(operations, kind) =>
            LET merged == <<[kind |-> kind, path |-> PathA, value |-> 0,
                             values |-> ConcatValues(operations), items |-> {}]>>
            IN  /\ Emitted(accumulators) = merged
                /\ get_operations(accumulators).errors = <<>>
                /\ result.returned => result.other_operations = merged

C9_Witness ==
    /\ operations = <<LogFloats(PathA, <<2, 3>>), LogFloats(PathA, <<1>>),
                      LogFloats(PathA, <<2, 3>>)>>
    /\ result.returned
    /\ result.other_operations = <<LogFloats(PathA, <<2, 3, 1, 2, 3>>)>>

\* C10: a Clear followed by Logs on a fresh series path is emitted as the Clear
\* followed by one Log holding the Logs' points in arrival order, and
\* modify_ops never holds more than two operations.
C10_ClearThenLogs(ops, clear, log) ==
    /\ Len(ops) >= 1
    /\ ops[1].kind = clear
    /\ \A i \in 2..Len(ops) : ops[i].kind = log
    /\ \A i \in 1..Len(ops) : ops[i].path = PathA

C10_ClearKeptBeforeMergedLog ==
    /\ Len(AccOf(accumulators, PathA).modify_ops) <= 2
    /\ \A pair \in {<<"ClearFloatLog", "LogFloats">>, <<"ClearStringLog", "LogStrings">>} :
           C10_ClearThenLogs(operations, pair[1], pair[2]) =>
               LET clear == operations[1]
                   merged == [kind |-> pair[2], path |-> PathA, value |-> 0,
                              values |-> ConcatValues(Tail(operations)), items |-> {}]
                   batch == IF Len(operations) = 1 THEN <<clear>> ELSE <<clear, merged>>
               IN  /\ Emitted(accumulators) = batch
                   /\ AccOf(accumulators, PathA).modify_ops = batch
                   /\ result.returned => result.other_operations = batch

C10_Witness ==
    /\ operations = <<ClearFloatLog(PathA), LogFloats(PathA, <<1>>),
                      LogFloats(PathA, <<2, 3>>)>>
    /\ result.returned
    /\ result.other_operations = <<ClearFloatLog(PathA), LogFloats(PathA, <<1, 2, 3>>)>>

\* The folded operation is accepted: it is a modify or configure operation and
\* the path's type is unset or the one it requires.
Accepted ==
    /\ FoldedOp.kind \in ModifyKinds \cup ConfigKinds
    /\ Pre.type \in {NoType, ExpectedType(FoldedOp.kind)}

\* C11: folding a Clear of the path's type makes modify_ops exactly [that
\* Clear] and leaves config_ops and delete_ops unchanged, so a
\* ConfigFloatSeries folded before the Clear is still emitted.
C11_ClearCollapsesModifyOps ==
    [][(Folding /\ FoldedOp.kind \in ClearLogKinds \cup {"ClearStringSet"} /\ Accepted) =>
          /\ Post.modify_ops = <<FoldedOp>>
          /\ Post.config_ops = Pre.config_ops
          /\ Post.delete_ops = Pre.delete_ops
          /\ Post.errors = Pre.errors
          /\ Emitted(accumulators') = Pre.delete_ops \o <<FoldedOp>> \o Pre.config_ops]_vars

\* A Clear discarded a held [Clear, Log] and kept the ConfigFloatSeries.
C11_Witness ==
    /\ operations = <<ClearFloatLog(PathA), LogFloats(PathA, <<1>>),
                      ConfigFloatSeries(PathA, 1, 2, 3), ClearFloatLog(PathA)>>
    /\ result.returned
    /\ result.other_operations = <<ClearFloatLog(PathA), ConfigFloatSeries(PathA, 1, 2, 3)>>

\* C12: an accepted AddStrings or RemoveStrings is appended to modify_ops,
\* whatever is held, and inputs made of Adds and Removes are emitted one by one
\* in arrival order.
C12_OnlyAddRemove(ops) ==
    /\ Len(ops) >= 1
    /\ \A i \in 1..Len(ops) : ops[i].kind \in {"AddStrings", "RemoveStrings"}

C12_AddRemoveNeverMerged ==
    [][/\ (Folding /\ FoldedOp.kind \in {"AddStrings", "RemoveStrings"} /\ Accepted) =>
              /\ Post.modify_ops = Pre.modify_ops \o <<FoldedOp>>
              /\ Post.delete_ops = Pre.delete_ops
              /\ Post.config_ops = Pre.config_ops
       /\ C12_OnlyAddRemove(operations') =>
              /\ Emitted(accumulators') = operations'
              /\ get_operations(accumulators').errors = <<>>
       /\ (C12_OnlyAddRemove(operations) /\ result'.returned) =>
              result'.other_operations = operations]_vars

C12_Witness ==
    /\ operations = <<AddStrings(PathA, {1}), AddStrings(PathA, {2, 3}),
                      RemoveStrings(PathA, {1}), AddStrings(PathA, {1})>>
    /\ result.returned
    /\ result.other_operations = operations

\* C13, as claimed: delete_ops holds at most 2 operations, modify_ops at most 2
\* and config_ops at most 1, in every reachable state of every accumulator.
C13_HeldOpsBounded ==
    \A k \in 1..Len(accumulators) :
        /\ Len(accumulators[k].acc.delete_ops) <= 2
        /\ Len(accumulators[k].acc.modify_ops) <= 2
        /\ Len(accumulators[k].acc.config_ops) <= 1

\* C13, amended: delete_ops holds at most 2 operations and config_ops at most
\* 1; modify_ops holds at most 2 unless the path's type is String Set, where
\* it holds the operations accepted since the last Clear or Delete (an optional
\* leading Clear, then Adds and Removes); with the type unset it is empty.
C13_HeldOpsBoundedButSets ==
    \A k \in 1..Len(accumulators) :
        LET acc == accumulators[k].acc
        IN  /\ Len(acc.delete_ops) <= 2
            /\ Len(acc.config_ops) <= 1
            /\ acc.type # DataType_STRING_SET => Len(acc.modify_ops) <= 2
            /\ acc.type = DataType_STRING_SET =>
                   \A i \in 1..Len(acc.modify_ops) :
                       \/ acc.modify_ops[i].kind \in {"AddStrings", "RemoveStrings"}
                       \/ i = 1 /\ acc.modify_ops[i].kind = "ClearStringSet"
            /\ acc.type = NoType => acc.modify_ops = <<>> /\ acc.config_ops = <<>>

\* Two delete operations and two modify operations are held at once.
C13_Witness ==
    /\ Len(AccOf(accumulators, PathA).delete_ops) = 2
    /\ Len(AccOf(accumulators, PathA).modify_ops) = 2
    /\ AccOf(accumulators, PathA).type = DataType_FLOAT_SERIES

\* C14: a path emits its delete_ops, then its modify_ops, then its config_ops:
\* at most one Delete, preceded by nothing but the one modify operation kept
\* for it, and a Configure after every modify operation.
C14_InOrder(e) ==
    /\ \A i, j \in 1..Len(e) :
           (e[i].kind = "DeleteAttribute" /\ e[j].kind = "DeleteAttribute") => i = j
    /\ \A i \in 1..Len(e) :
           e[i].kind = "DeleteAttribute" =>
               /\ i <= 2
               /\ i = 2 => e[1].kind \in ModifyKinds
    /\ \A i, j \in 1..Len(e) :
           (e[i].kind \in ConfigKinds /\ e[j].kind \in ModifyKinds) => j < i

C14_EmissionOrder ==
    LET acc == AccOf(accumulators, PathA)
    IN  /\ Emitted(accumulators) = acc.delete_ops \o acc.modify_ops \o acc.config_ops
        /\ C14_InOrder(Emitted(accumulators))
        /\ \A i \in 1..Len(acc.config_ops) : acc.config_ops[i].kind \in ConfigKinds
        /\ \A i \in 1..Len(acc.modify_ops) : acc.modify_ops[i].kind \in ModifyKinds
        /\ result.returned => result.other_operations = Emitted(accumulators)

C14_Witness ==
    /\ operations = <<LogFloats(PathA, <<1>>), DeleteAttribute(PathA),
                      ConfigFloatSeries(PathA, 1, 2, 3), LogFloats(PathA, <<2, 3>>)>>
    /\ result.returned
    /\ result.other_operations =
           <<LogFloats(PathA, <<1>>), DeleteAttribute(PathA), LogFloats(PathA, <<2, 3>>),
             ConfigFloatSeries(PathA, 1, 2, 3)>>

\* A step of process() that raises.
Raising == Folding /\ raised' # "None"

\* C15: when folding an operation raises, processed_ops_count is the number of
\* operations folded before it, every accumulator is as those operations left
\* it (a path the raising operation is the first to touch has got an empty
\* accumulator, which emits nothing), and process() folds nothing more.
C15_FaultStopsFolding ==
    [][/\ Raising =>
              /\ processed_ops_count' = processed_ops_count
              /\ processed_ops_count' = Len(operations)
              /\ \A k \in 1..Len(accumulators) : accumulators'[k] = accumulators[k]
              /\ \A k \in Len(accumulators) + 1..Len(accumulators') :
                     accumulators'[k].acc = NewAccumulator(FoldedOp.path)
              /\ get_operations(accumulators') = get_operations(accumulators)
       /\ raised # "None" =>
              /\ operations' = operations
              /\ accumulators' = accumulators
              /\ processed_ops_count' = processed_ops_count]_vars

\* A CopyAttribute at index 2 raised after two operations were folded.
C15_Witness ==
    /\ operations = <<AssignFloat(PathA, 1), AssignString(PathADash, 1), CopyAttribute(PathAB)>>
    /\ raised # "None"
    /\ processed_ops_count = 2
    /\ Emitted(accumulators) = <<AssignFloat(PathA, 1), AssignString(PathADash, 1)>>

\* C16: a CopyAttribute that reaches the accumulator is reported as an
\* InternalClientError and is not added to the path's errors.
C16_CopyIsInternalError ==
    [][(Folding /\ FoldedOp.kind = "CopyAttribute") =>
          /\ raised' = "InternalClientError"
          /\ Post.errors = Pre.errors]_vars

\* A step that is a get_operations() call.
Snapshot == operations' = operations /\ result'.returned

\* C17: get_operations() changes no accumulator and not processed_ops_count,
\* and a call that follows another with no process() in between returns an
\* equal batch.
C17_SnapshotIdempotent ==
    [][Snapshot =>
          /\ accumulators' = accumulators
          /\ processed_ops_count' = processed_ops_count
          /\ raised' = raised
          /\ result'.other_operations = Emitted(accumulators')
          /\ result.returned =>
                 /\ result'.other_operations = result.other_operations
                 /\ result'.upload_operations = result.upload_operations
                 /\ result'.errors = result.errors]_vars

\* A batch with operations of two paths and an error was returned.
C17_Witness ==
    /\ result.returned
    /\ Len(result.other_operations) = 3
    /\ Len(result.errors) = 1
    /\ Len(accumulators) = 2
    /\ processed_ops_count = 4

(***************************************************************************)
(* Daemon                                                                  *)
(***************************************************************************)

\* Daemon.DaemonState
DaemonState == {"INIT", "RUNNING", "PAUSED", "INTERRUPTED", "STOPPED"}

\* ConnectionRetryWrapper.INITIAL_RETRY_BACKOFF, MAX_RETRY_BACKOFF
INITIAL_RETRY_BACKOFF == 2
MAX_RETRY_BACKOFF == 120

\* min() of two numbers
Min(a, b) == IF a < b THEN a ELSE b

\* Daemon._is_interrupted
is_interrupted == state = "INTERRUPTED"

\* Daemon.is_running
is_running == state = "RUNNING"

\* Thread.start(): the thread exists and run() is about to begin.
Start ==
    /\ pc = "init"
    /\ pc' = "run"
    /\ UNCHANGED <<state, sleep_time, last_backoff_time, wrapped, start_state, run_exc,
                   scn_lock, wc_lock, caller_pc>>
    /\ UNCHANGED pvars
    /\ UNCHANGED bvars
    /\ UNCHANGED svars

\* run(): self._state = RUNNING, written without a lock.
RunSetRunning ==
    /\ pc = "run"
    /\ state' = "RUNNING"
    /\ pc' = "while"
    /\ UNCHANGED <<sleep_time, last_backoff_time, wrapped, start_state, run_exc,
                   scn_lock, wc_lock, caller_pc>>
    /\ UNCHANGED pvars
    /\ UNCHANGED bvars
    /\ UNCHANGED svars

\* run(): while not self._is_interrupted()
LoopWhile ==
    /\ pc = "while"
    /\ pc' = IF is_interrupted THEN "finally" ELSE "start_state"
    /\ UNCHANGED <<state, sleep_time, last_backoff_time, wrapped, start_state, run_exc,
                   scn_lock, wc_lock, caller_pc>>
    /\ UNCHANGED pvars
    /\ UNCHANGED bvars
    /\ UNCHANGED svars

\* run(): start_state = self._state
LoopStartState ==
    /\ pc = "start_state"
    /\ start_state' = state
    /\ pc' = "notify"
    /\ UNCHANGED <<state, sleep_time, last_backoff_time, wrapped, run_exc,
                   scn_lock, wc_lock, caller_pc>>
    /\ UNCHANGED pvars
    /\ UNCHANGED bvars
    /\ UNCHANGED svars

\* run(): with self._state_change_notice_condition: notify_all(). The lock is
\* taken, every thread waiting in pause() is notified, the lock is released.
LoopNotify ==
    /\ pc = "notify"
    /\ scn_lock = "free"
    /\ caller_pc' = [c \in Callers |->
                        IF caller_pc[c] = "pause_waiting" THEN "pause_notified"
                        ELSE caller_pc[c]]
    /\ pc' = "check"
    /\ UNCHANGED <<state, sleep_time, last_backoff_time, wrapped, start_state, run_exc,
                   scn_lock, wc_lock>>
    /\ UNCHANGED pvars
    /\ UNCHANGED bvars
    /\ UNCHANGED svars

\* run(): the three tests of self._state; only RUNNING has a body, the call of
\* work(), which is the wrapper when work() is decorated.
LoopCheck ==
    /\ pc = "check"
    /\ pc' = IF is_running THEN (IF wrapped THEN "wrapper_while" ELSE "func")
             ELSE "sleep_check"
    /\ UNCHANGED <<state, sleep_time, last_backoff_time, wrapped, start_state, run_exc,
                   scn_lock, wc_lock, caller_pc>>
    /\ UNCHANGED pvars
    /\ UNCHANGED bvars
    /\ UNCHANGED svars

\* Variant: the wrapper gives up once the backoff has reached its maximum.
WrapperWhile_gives_up ==
    /\ pc = "wrapper_while"
    /\ pc' = IF is_interrupted \/ last_backoff_time = MAX_RETRY_BACKOFF
             THEN "sleep_check" ELSE "func"
    /\ UNCHANGED <<state, sleep_time, last_backoff_time, wrapped, start_state, run_exc,
                   scn_lock, wc_lock, caller_pc>>
    /\ UNCHANGED pvars
    /\ UNCHANGED bvars
    /\ UNCHANGED svars

\* wrapper: while not self_._is_interrupted(); falling out of the loop returns
\* None to run().
WrapperWhile ==
    /\ pc = "wrapper_while"
    /\ pc' = IF is_interrupted THEN "sleep_check" ELSE "func"
    /\ UNCHANGED <<state, sleep_time, last_backoff_time, wrapped, start_state, run_exc,
                   scn_lock, wc_lock, caller_pc>>
    /\ UNCHANGED pvars
    /\ UNCHANGED bvars
    /\ UNCHANGED svars

\* The body of work() returns; the wrapper resets a positive backoff.
FuncReturn ==
    /\ pc = "func"
    /\ last_backoff_time' = IF wrapped /\ last_backoff_time > 0 THEN 0
                            ELSE last_backoff_time
    /\ pc' = "sleep_check"
    /\ UNCHANGED <<state, sleep_time, wrapped, start_state, run_exc,
                   scn_lock, wc_lock, caller_pc>>
    /\ UNCHANGED pvars
    /\ UNCHANGED bvars
    /\ UNCHANGED svars

\* Variant: every connection failure sets the initial backoff, with no doubling.
FuncConnectionLost_constant ==
    /\ pc = "func"
    /\ wrapped
    /\ last_backoff_time' = INITIAL_RETRY_BACKOFF
    /\ pc' = "wrapper_sleep"
    /\ UNCHANGED <<state, sleep_time, wrapped, start_state, run_exc,
                   scn_lock, wc_lock, caller_pc>>
    /\ UNCHANGED pvars
    /\ UNCHANGED bvars
    /\ UNCHANGED svars

\* The body of work() raises NeptuneConnectionLostException under the wrapper:
\* the backoff starts at INITIAL_RETRY_BACKOFF, then doubles up to
\* MAX_RETRY_BACKOFF, and the wrapper goes to sleep.
FuncConnectionLost ==
    /\ pc = "func"
    /\ wrapped
    /\ last_backoff_time' = IF last_backoff_time = 0 THEN INITIAL_RETRY_BACKOFF
                            ELSE Min(last_backoff_time * 2, MAX_RETRY_BACKOFF)
    /\ pc' = "wrapper_sleep"
    /\ UNCHANGED <<state, sleep_time, wrapped, start_state, run_exc,
                   scn_lock, wc_lock, caller_pc>>
    /\ UNCHANGED pvars
    /\ UNCHANGED bvars
    /\ UNCHANGED svars

\* wrapper: time.sleep(self_.last_backoff_time) is over.
WrapperSleep ==
    /\ pc = "wrapper_sleep"
    /\ pc' = "wrapper_while"
    /\ UNCHANGED <<state, sleep_time, last_backoff_time, wrapped, start_state, run_exc,
                   scn_lock, wc_lock, caller_pc>>
    /\ UNCHANGED pvars
    /\ UNCHANGED bvars
    /\ UNCHANGED svars

\* Variant: under the wrapper the failed call is tried again.
FuncRaise_retries ==
    /\ pc = "func"
    /\ \E e \in IF wrapped THEN {"Exception"}
                ELSE {"Exception", "NeptuneConnectionLostException"} :
           run_exc' = e
    /\ pc' = IF wrapped THEN "wrapper_while" ELSE "finally"
    /\ UNCHANGED <<state, sleep_time, last_backoff_time, wrapped, start_state,
                   scn_lock, wc_lock, caller_pc>>
    /\ UNCHANGED pvars
    /\ UNCHANGED bvars
    /\ UNCHANGED svars

\* The body of work() raises: any exception without the wrapper, any but
\* NeptuneConnectionLostException under it (logged and raised again). The
\* exception leaves the loop of run() through its finally clause.
FuncRaise ==
    /\ pc = "func"
    /\ \E e \in IF wrapped THEN {"Exception"}
                ELSE {"Exception", "NeptuneConnectionLostException"} :
           run_exc' = e
    /\ pc' = "finally"
    /\ UNCHANGED <<state, sleep_time, last_backoff_time, wrapped, start_state,
                   scn_lock, wc_lock, caller_pc>>
    /\ UNCHANGED pvars
    /\ UNCHANGED bvars
    /\ UNCHANGED svars

\* run(): if self._sleep_time > 0 and not self._is_interrupted()
LoopSleepCheck ==
    /\ pc = "sleep_check"
    /\ pc' = IF sleep_time > 0 /\ ~is_interrupted THEN "wait_lock" ELSE "while"
    /\ UNCHANGED <<state, sleep_time, last_backoff_time, wrapped, start_state, run_exc,
                   scn_lock, wc_lock, caller_pc>>
    /\ UNCHANGED pvars
    /\ UNCHANGED bvars
    /\ UNCHANGED svars

\* run(): with self._wait_condition
LoopWaitLock ==
    /\ pc = "wait_lock"
    /\ wc_lock = "free"
    /\ wc_lock' = "loop"
    /\ pc' = "wait_check"
    /\ UNCHANGED <<state, sleep_time, last_backoff_time, wrapped, start_state, run_exc,
                   scn_lock, caller_pc>>
    /\ UNCHANGED pvars
    /\ UNCHANGED bvars
    /\ UNCHANGED svars

\* Variant: the wait is entered without comparing the state with start_state.
LoopWaitCheck_always_waits ==
    /\ pc = "wait_check"
    /\ pc' = "waiting"
    /\ wc_lock' = "free"
    /\ UNCHANGED <<state, sleep_time, last_backoff_time, wrapped, start_state, run_exc,
                   scn_lock, caller_pc>>
    /\ UNCHANGED pvars
    /\ UNCHANGED bvars
    /\ UNCHANGED svars

\* run(): if self._state == start_state: self._wait_condition.wait(timeout=...).
\* wait() gives the lock up; skipping it leaves the with block, which does too.
LoopWaitCheck ==
    /\ pc = "wait_check"
    /\ pc' = IF state = start_state THEN "waiting" ELSE "while"
    /\ wc_lock' = "free"
    /\ UNCHANGED <<state, sleep_time, last_backoff_time, wrapped, start_state, run_exc,
                   scn_lock, caller_pc>>
    /\ UNCHANGED pvars
    /\ UNCHANGED bvars
    /\ UNCHANGED svars

\* The wait of run() ends by its timeout, or after a notify_all(); either way
\* the lock is taken again and released on leaving the with block.
LoopTimeout ==
    /\ pc = "waiting"
    /\ wc_lock = "free"
    /\ pc' = "while"
    /\ UNCHANGED <<state, sleep_time, last_backoff_time, wrapped, start_state, run_exc,
                   scn_lock, wc_lock, caller_pc>>
    /\ UNCHANGED pvars
    /\ UNCHANGED bvars
    /\ UNCHANGED svars

LoopNotified ==
    /\ pc = "notified"
    /\ wc_lock = "free"
    /\ pc' = "while"
    /\ UNCHANGED <<state, sleep_time, last_backoff_time, wrapped, start_state, run_exc,
                   scn_lock, wc_lock, caller_pc>>
    /\ UNCHANGED pvars
    /\ UNCHANGED bvars
    /\ UNCHANGED svars

\* run(): finally: self._state = STOPPED; the thread ends.
LoopFinally ==
    /\ pc = "finally"
    /\ state' = "STOPPED"
    /\ pc' = "done"
    /\ UNCHANGED <<sleep_time, last_backoff_time, wrapped, start_state, run_exc,
                   scn_lock, wc_lock, caller_pc>>
    /\ UNCHANGED pvars
    /\ UNCHANGED bvars
    /\ UNCHANGED svars

\* The daemon thread exists: start() was called on it.
Started == pc # "init"

\* pause(), resume() and interrupt() open alike: the lock of
\* _state_change_notice_condition is taken and self._state is assigned.
SetState(c, call, new_state) ==
    /\ Started
    /\ caller_pc[c] = "idle"
    /\ scn_lock = "free"
    /\ scn_lock' = c
    /\ state' = new_state
    /\ caller_pc' = [caller_pc EXCEPT ![c] = call]
    /\ UNCHANGED <<sleep_time, last_backoff_time, wrapped, pc, start_state, run_exc, wc_lock>>
    /\ UNCHANGED pvars
    /\ UNCHANGED bvars
    /\ UNCHANGED svars

\* interrupt(): self._state = INTERRUPTED
Interrupt(c) == SetState(c, "interrupt", "INTERRUPTED")

\* pause(): self._state = PAUSED
Pause(c) == SetState(c, "pause", "PAUSED")

\* resume(): self._state = RUNNING
Resume(c) == SetState(c, "resume", "RUNNING")

\* wake_up(): with self._wait_condition: notify_all(). A run loop waiting on
\* the condition is notified.
notify_wait_condition == IF pc = "waiting" THEN "notified" ELSE pc

\* Variant: the caller goes on only once the loop is outside work().
SetterWakeUp_waits_for_loop(c) ==
    /\ caller_pc[c] \in {"interrupt", "resume"}
    /\ wc_lock = "free"
    /\ pc \notin {"wrapper_while", "func", "wrapper_sleep"}
    /\ pc' = notify_wait_condition
    /\ scn_lock' = "free"
    /\ caller_pc' = [caller_pc EXCEPT ![c] = "idle"]
    /\ UNCHANGED <<state, sleep_time, last_backoff_time, wrapped, start_state, run_exc, wc_lock>>
    /\ UNCHANGED pvars
    /\ UNCHANGED bvars
    /\ UNCHANGED svars

\* interrupt() and resume(): self.wake_up(), then the with block is left.
SetterWakeUp(c) ==
    /\ caller_pc[c] \in {"interrupt", "resume"}
    /\ wc_lock = "free"
    /\ pc' = notify_wait_condition
    /\ scn_lock' = "free"
    /\ caller_pc' = [caller_pc EXCEPT ![c] = "idle"]
    /\ UNCHANGED <<state, sleep_time, last_backoff_time, wrapped, start_state, run_exc, wc_lock>>
    /\ UNCHANGED pvars
    /\ UNCHANGED bvars
    /\ UNCHANGED svars

\* pause(): self.wake_up()
PauseWakeUp(c) ==
    /\ caller_pc[c] = "pause"
    /\ wc_lock = "free"
    /\ pc' = notify_wait_condition
    /\ caller_pc' = [caller_pc EXCEPT ![c] = "pause_wait"]
    /\ UNCHANGED <<state, sleep_time, last_backoff_time, wrapped, start_state, run_exc,
                   scn_lock, wc_lock>>
    /\ UNCHANGED pvars
    /\ UNCHANGED bvars
    /\ UNCHANGED svars

\* pause(): self._state_change_notice_condition.wait() gives the lock up and
\* blocks until the condition is notified.
PauseWait(c) ==
    /\ caller_pc[c] = "pause_wait"
    /\ scn_lock' = "free"
    /\ caller_pc' = [caller_pc EXCEPT ![c] = "pause_waiting"]
    /\ UNCHANGED <<state, sleep_time, last_backoff_time, wrapped, pc, start_state, run_exc,
                   wc_lock>>
    /\ UNCHANGED pvars
    /\ UNCHANGED bvars
    /\ UNCHANGED svars

\* pause(): the notified wait() takes the lock again, the with block is left
\* and pause() returns.
PauseReturn(c) ==
    /\ caller_pc[c] = "pause_notified"
    /\ scn_lock = "free"
    /\ caller_pc' = [caller_pc EXCEPT ![c] = "idle"]
    /\ UNCHANGED <<state, sleep_time, last_backoff_time, wrapped, pc, start_state, run_exc,
                   scn_lock, wc_lock>>
    /\ UNCHANGED pvars
    /\ UNCHANGED bvars
    /\ UNCHANGED svars

\* wake_up() called from outside
WakeUp(c) ==
    /\ Started
    /\ caller_pc[c] = "idle"
    /\ wc_lock = "free"
    /\ pc' = notify_wait_condition
    /\ UNCHANGED <<state, sleep_time, last_backoff_time, wrapped, start_state, run_exc,
                   scn_lock, wc_lock, caller_pc>>
    /\ UNCHANGED pvars
    /\ UNCHANGED bvars
    /\ UNCHANGED svars

\* disable_sleep(): self._sleep_time = 0
DisableSleep(c) ==
    /\ Started
    /\ caller_pc[c] = "idle"
    /\ sleep_time' = 0
    /\ UNCHANGED <<state, last_backoff_time, wrapped, pc, start_state, run_exc,
                   scn_lock, wc_lock, caller_pc>>
    /\ UNCHANGED pvars
    /\ UNCHANGED bvars
    /\ UNCHANGED svars

\* A daemon of either kind of work(), with or without a sleep between the
\* iterations, beside a preprocessor that is never fed.
DaemonInit ==
    /\ PreprocessorInit
    /\ SyncInit
    /\ BackendInit
    /\ \E sleep \in {0, 1}, wrap \in BOOLEAN : DaemonConstructed(sleep, wrap)

\* The daemon thread beside two threads that call into it.
NextDaemon ==
    \/ Start
    \/ RunSetRunning
    \/ LoopWhile
    \/ LoopStartState
    \/ LoopNotify
    \/ LoopCheck
    \/ WrapperWhile
    \/ FuncReturn
    \/ FuncConnectionLost
    \/ WrapperSleep
    \/ FuncRaise
    \/ LoopSleepCheck
    \/ LoopWaitLock
    \/ LoopWaitCheck
    \/ LoopTimeout
    \/ LoopNotified
    \/ LoopFinally
    \/ \E c \in Callers : Interrupt(c)
    \/ \E c \in Callers : Pause(c)
    \/ \E c \in Callers : Resume(c)
    \/ \E c \in Callers : SetterWakeUp(c)
    \/ \E c \in Callers : PauseWakeUp(c)
    \/ \E c \in Callers : PauseWait(c)
    \/ \E c \in Callers : PauseReturn(c)
    \/ \E c \in Callers : WakeUp(c)
    \/ \E c \in Callers : DisableSleep(c)

SpecDaemon == DaemonInit /\ [][NextDaemon]_vars

\* The daemon thread beside one thread that only pauses it: no resume() and
\* no interrupt() runs beside the pause().
NextPauseOnly ==
    \/ Start
    \/ RunSetRunning
    \/ LoopWhile
    \/ LoopStartState
    \/ LoopNotify
    \/ LoopCheck
    \/ WrapperWhile
    \/ FuncReturn
    \/ FuncConnectionLost
    \/ WrapperSleep
    \/ FuncRaise
    \/ LoopSleepCheck
    \/ LoopWaitLock
    \/ LoopWaitCheck
    \/ LoopTimeout
    \/ LoopNotified
    \/ LoopFinally
    \/ Pause("c1")
    \/ PauseWakeUp("c1")
    \/ PauseWait("c1")
    \/ PauseReturn("c1")

SpecPauseOnly == DaemonInit /\ [][NextPauseOnly]_vars

\* work() is in flight: run() has called it and it has not returned.
WorkInFlight == pc \in {"wrapper_while", "func", "wrapper_sleep"}

\* A step in which a pause() call returns to its caller.
PauseReturns == \E c \in Callers : caller_pc[c] = "pause_notified" /\ caller_pc'[c] = "idle"

\* C18: a pause() made once the daemon thread is started returns only while
\* no work() call is in flight.
C18_PauseReturnsOutsideWork ==
    [][PauseReturns => ~WorkInFlight]_vars

\* The edges of the daemon's state machine.
Edges ==
    {<<"INIT", "RUNNING">>, <<"RUNNING", "PAUSED">>, <<"PAUSED", "RUNNING">>,
     <<"RUNNING", "INTERRUPTED">>, <<"PAUSED", "INTERRUPTED">>,
     <<"INTERRUPTED", "STOPPED">>}

\* C19: every change of the daemon's state follows one of the edges.
C19_StateFollowsEdges ==
    [][state' # state => <<state, state'>> \in Edges]_vars

\* C20: once the state is STOPPED it stays STOPPED and the thread, which has
\* ended, calls work() no more.
C20_StoppedIsTerminal ==
    [][state = "STOPPED" => state' = "STOPPED" /\ ~WorkInFlight']_vars

(***************************************************************************)
(* Scheduling. The daemon thread keeps running: a statement of run() that  *)
(* stays possible is executed, and the body of work() ends one way or      *)
(* another. A thread blocked on a lock gets it if it is free again and     *)
(* again. Nothing obliges another thread to start a call.                  *)
(***************************************************************************)

\* The statements of run(), work() included, that take no contended lock.
LoopStep ==
    \/ Start
    \/ RunSetRunning
    \/ LoopWhile
    \/ LoopStartState
    \/ LoopCheck
    \/ WrapperWhile
    \/ FuncReturn
    \/ FuncConnectionLost
    \/ WrapperSleep
    \/ FuncRaise
    \/ LoopSleepCheck
    \/ LoopWaitLock
    \/ LoopWaitCheck
    \/ LoopTimeout
    \/ LoopNotified
    \/ LoopFinally

FairDaemon ==
    /\ WF_vars(LoopStep)
    /\ SF_vars(LoopNotify)
    /\ \A c \in Callers : SF_vars(SetterWakeUp(c))
    /\ \A c \in Callers : SF_vars(PauseWakeUp(c))
    /\ \A c \in Callers : WF_vars(PauseWait(c))
    /\ \A c \in Callers : SF_vars(PauseReturn(c))

\* The daemon thread beside threads that only interrupt it.
NextInterrupt ==
    \/ LoopStep
    \/ LoopNotify
    \/ \E c \in Callers : Interrupt(c)
    \/ \E c \in Callers : SetterWakeUp(c)

SpecInterruptFair == DaemonInit /\ [][NextInterrupt]_vars /\ FairDaemon

\* run() has set STOPPED and the thread has ended.
RunEnded == pc = "done"

\* C21: an interrupt() call made on a started daemon leads to the end of
\* run(), which sets STOPPED, and once the loop has read the flag no work()
\* starts.
C21_InterruptStops ==
    /\ (\E c \in Callers : caller_pc[c] = "interrupt") ~> RunEnded
    /\ [](pc \in {"finally", "done"} => [](~WorkInFlight))

\* A caller has assigned the state and its wake_up() is still to come.
WakeUpPending ==
    \E c \in Callers : caller_pc[c] \in {"interrupt", "pause", "resume"} /\ scn_lock = c

FairCallers ==
    /\ WF_vars(LoopWaitCheck)
    /\ \A c \in Callers : SF_vars(SetterWakeUp(c))

SpecCallersFair == DaemonInit /\ [][NextDaemon]_vars /\ FairCallers

\* A step in which caller c enters resume() or interrupt().
SetterEnters(c) == caller_pc[c] = "idle" /\ caller_pc'[c] \in {"interrupt", "resume"}

\* A step in which the resume() or interrupt() call of caller c returns.
SetterReturns(c) == caller_pc[c] \in {"interrupt", "resume"} /\ caller_pc'[c] = "idle"

\* C23: a resume() or interrupt() call sets the requested state, notifies a
\* waiting loop and returns, whatever the run loop does, work() that never
\* returns included.
C23_SettersNeverWait ==
    /\ \A c \in Callers :
           (caller_pc[c] \in {"interrupt", "resume"}) ~> (caller_pc[c] = "idle")
    /\ [][\A c \in Callers :
              /\ SetterEnters(c) =>
                     state' = IF caller_pc'[c] = "resume" THEN "RUNNING" ELSE "INTERRUPTED"
              /\ SetterReturns(c) =>
                     /\ pc' = pc \/ (pc = "waiting" /\ pc' = "notified")
                     /\ pc' # "waiting"]_vars

\* An interrupt() has returned while work() is in flight.
C23_Witness ==
    /\ pc = "func"
    /\ state = "INTERRUPTED"
    /\ \A c \in Callers : caller_pc[c] = "idle"

\* The backoff after each of a run of consecutive connection failures.
BackoffSequence == <<2, 4, 8, 16, 32, 64, 120>>

\* The backoff that follows backoff b in the sequence; the last one repeats.
BackoffAfter(b) ==
    IF b = 0 THEN BackoffSequence[1]
    ELSE IF \E i \in 1..Len(BackoffSequence) - 1 : BackoffSequence[i] = b
         THEN BackoffSequence[(CHOOSE i \in 1..Len(BackoffSequence) - 1 : BackoffSequence[i] = b) + 1]
         ELSE BackoffSequence[Len(BackoffSequence)]

\* A step in which the wrapped function fails with a lost connection.
ConnectionFails == wrapped /\ pc = "func" /\ pc' = "wrapper_sleep"

\* A step in which the wrapped function returns.
CallSucceeds == wrapped /\ pc = "func" /\ pc' = "sleep_check"

\* C24: last_backoff_time starts at 0, steps through 2, 4, 8, 16, 32, 64, 120,
\* 120, ... on consecutive connection failures, is reset to 0 by a successful
\* call, changes at no other step and never exceeds 120.
C24_BackoffSequence ==
    /\ last_backoff_time = 0
    /\ [][/\ ConnectionFails => last_backoff_time' = BackoffAfter(last_backoff_time)
          /\ CallSucceeds => last_backoff_time' = 0
          /\ ~ConnectionFails /\ ~CallSucceeds => last_backoff_time' = last_backoff_time
          /\ last_backoff_time' <= 120
          /\ last_backoff_time' = 0 \/ \E i \in 1..Len(BackoffSequence) :
                                          last_backoff_time' = BackoffSequence[i]]_vars

\* The backoff is at its maximum and the function is called once more.
C24_Witness ==
    /\ wrapped
    /\ last_backoff_time = 120
    /\ pc = "func"

\* A step in which the wrapped call returns to run().
WrapperReturns == wrapped /\ WorkInFlight /\ pc' = "sleep_check"

\* C25: under the wrapper a lost connection never leaves the call as an
\* exception; after such a failure the wrapper sleeps and tests the flag, then
\* calls the function again unless the daemon is interrupted; the call returns
\* only from a successful invocation or on reading the flag as interrupted.
C25_ConnectionLostRetried ==
    [][wrapped =>
          /\ run_exc' # "NeptuneConnectionLostException"
          /\ ConnectionFails => run_exc' = "None"
          /\ (pc = "wrapper_sleep" /\ pc' # pc) => pc' = "wrapper_while"
          /\ (pc = "wrapper_while" /\ pc' # pc) =>
                 pc' = IF is_interrupted THEN "sleep_check" ELSE "func"
          /\ WrapperReturns => CallSucceeds \/ (pc = "wrapper_while" /\ is_interrupted)]_vars

\* The function is called again after a first connection failure.
C25_Witness ==
    /\ wrapped
    /\ last_backoff_time = INITIAL_RETRY_BACKOFF
    /\ pc = "func"
    /\ run_exc = "None"

\* A step in which the body of work() fails and the failure is not retried.
WorkFails == pc = "func" /\ ~ConnectionFails /\ ~(pc' \in {"func", "sleep_check"})

\* C26: a failure of work() that is not a retried connection loss leaves
\* last_backoff_time alone and leaves run() as an exception: work() is not in
\* flight again, and run() ends by setting STOPPED.
C26_FailureNotRetried ==
    [][/\ WorkFails =>
              /\ pc' = "finally"
              /\ run_exc' # "None"
              /\ last_backoff_time' = last_backoff_time
       /\ run_exc # "None" =>
              /\ pc \in {"finally", "done"}
              /\ pc' \in {"finally", "done"}
              /\ run_exc' = run_exc
              /\ last_backoff_time' = last_backoff_time
       /\ (pc = "finally" /\ pc' # pc) => (pc' = "done" /\ state' = "STOPPED")]_vars

\* A failure after two connection failures has ended run().
C26_Witness ==
    /\ wrapped
    /\ run_exc = "Exception"
    /\ last_backoff_time = 4
    /\ pc = "done"
    /\ state = "STOPPED"

(***************************************************************************)
(* NeptuneBackendMock: the reference store                                 *)
(***************************************************************************)

MaxBatch == 4

\* neptune.types values: Float, Integer, Boolean, String, Datetime hold a
\* value; the series hold a list of values (FloatSeries also min, max, unit);
\* StringSet holds a set.
Value(type, value, values, items, config) ==
    [type |-> type, value |-> value, values |-> values, items |-> items, config |-> config]

Float(v) == Value("Float", v, <<>>, {}, <<>>)
Integer(v) == Value("Integer", v, <<>>, {}, <<>>)
Boolean(v) == Value("Boolean", v, <<>>, {}, <<>>)
String(v) == Value("String", v, <<>>, {}, <<>>)
Datetime(v) == Value("Datetime", v, <<>>, {}, <<>>)
FloatSeries(vs, config) == Value("FloatSeries", 0, vs, {}, config)
StringSeries(vs) == Value("StringSeries", 0, vs, {}, <<>>)
StringSet(items) == Value("StringSet", 0, <<>>, items, <<>>)

\* isinstance(value, expected_type)
isinstance(value, type) == value.type = type

\* The outcome of a visit_* method of NewValueOpVisitor: the value returned
\* (NoValue for None) or the exception raised.
NewValue(val) == [val |-> val, exc |-> "None", msg |-> ""]

\* NewValueOpVisitor._create_type_error
create_type_error(op_name, expected) ==
    [val |-> NoValue, exc |-> "MetadataInconsistency",
     msg |-> "Cannot perform " \o op_name \o " operation. Expected " \o expected]

\* Variant: an assignment replaces whatever the path holds.
backend_visit_assign_unchecked(current_value, op, type) ==
    NewValue(Value(type, op.value, <<>>, {}, <<>>))

\* visit_assign_float, _int, _bool, _string, _datetime
backend_visit_assign(current_value, op, type) ==
    IF current_value # NoValue /\ ~isinstance(current_value, type)
    THEN create_type_error("assign", type)
    ELSE NewValue(Value(type, op.value, <<>>, {}, <<>>))

\* visit_log_floats
backend_visit_log_floats(current_value, op) ==
    IF current_value = NoValue THEN NewValue(FloatSeries(op.values, <<>>))
    ELSE IF ~isinstance(current_value, "FloatSeries")
    THEN create_type_error("log", "FloatSeries")
    ELSE NewValue(FloatSeries(current_value.values \o op.values, current_value.config))

\* Variant: the logged values are put before the stored ones.
backend_visit_log_strings_prepends(current_value, op) ==
    IF current_value = NoValue THEN NewValue(StringSeries(op.values))
    ELSE IF ~isinstance(current_value, "StringSeries")
    THEN create_type_error("log", "StringSeries")
    ELSE NewValue(StringSeries(op.values \o current_value.values))

\* visit_log_strings
backend_visit_log_strings(current_value, op) ==
    IF current_value = NoValue THEN NewValue(StringSeries(op.values))
    ELSE IF ~isinstance(current_value, "StringSeries")
    THEN create_type_error("log", "StringSeries")
    ELSE NewValue(StringSeries(current_value.values \o op.values))

\* Variant: clearing a series forgets its min, max and unit.
backend_visit_clear_float_log_drops_config(current_value, op) ==
    IF current_value = NoValue THEN NewValue(FloatSeries(<<>>, <<>>))
    ELSE IF ~isinstance(current_value, "FloatSeries")
    THEN create_type_error("clear", "FloatSeries")
    ELSE NewValue(FloatSeries(<<>>, <<>>))

\* visit_clear_float_log
backend_visit_clear_float_log(current_value, op) ==
    IF current_value = NoValue THEN NewValue(FloatSeries(<<>>, <<>>))
    ELSE IF ~isinstance(current_value, "FloatSeries")
    THEN create_type_error("clear", "FloatSeries")
    ELSE NewValue(FloatSeries(<<>>, current_value.config))

\* visit_clear_string_log
backend_visit_clear_string_log(current_value, op) ==
    IF current_value = NoValue THEN NewValue(StringSeries(<<>>))
    ELSE IF ~isinstance(current_value, "StringSeries")
    THEN create_type_error("clear", "StringSeries")
    ELSE NewValue(StringSeries(<<>>))

\* visit_config_float_series
backend_visit_config_float_series(current_value, op) ==
    IF current_value = NoValue THEN NewValue(FloatSeries(<<>>, op.values))
    ELSE IF ~isinstance(current_value, "FloatSeries")
    THEN create_type_error("log", "FloatSeries")
    ELSE NewValue(FloatSeries(current_value.values, op.values))

\* visit_add_strings
backend_visit_add_strings(current_value, op) ==
    IF current_value = NoValue THEN NewValue(StringSet(op.items))
    ELSE IF ~isinstance(current_value, "StringSet")
    THEN create_type_error("add", "StringSet")
    ELSE NewValue(StringSet(current_value.items \cup op.items))

\* Variant: removing empties the set.
backend_visit_remove_strings_clears(current_value, op) ==
    IF current_value = NoValue THEN NewValue(StringSet({}))
    ELSE IF ~isinstance(current_value, "StringSet")
    THEN create_type_error("remove", "StringSet")
    ELSE NewValue(StringSet({}))

\* visit_remove_strings
backend_visit_remove_strings(current_value, op) ==
    IF current_value = NoValue THEN NewValue(StringSet({}))
    ELSE IF ~isinstance(current_value, "StringSet")
    THEN create_type_error("remove", "StringSet")
    ELSE NewValue(StringSet(current_value.items \ op.items))

\* visit_clear_string_set
backend_visit_clear_string_set(current_value, op) ==
    IF current_value = NoValue THEN NewValue(StringSet({}))
    ELSE IF ~isinstance(current_value, "StringSet")
    THEN create_type_error("clear", "StringSet")
    ELSE NewValue(StringSet({}))

\* Variant: deleting returns None whether or not the attribute is defined.
backend_visit_delete_attribute_silent(current_value, op) ==
    NewValue(NoValue)

\* visit_delete_attribute
backend_visit_delete_attribute(current_value, op) ==
    IF current_value = NoValue
    THEN [val |-> NoValue, exc |-> "MetadataInconsistency",
          msg |-> "Cannot perform delete operation. Attribute is undefined."]
    ELSE NewValue(NoValue)

\* visitor.visit(op): the dispatch of OperationVisitor
backend_visit(current_value, op) ==
    CASE op.kind = "AssignFloat" -> backend_visit_assign(current_value, op, "Float")
      [] op.kind = "AssignInt" -> backend_visit_assign(current_value, op, "Integer")
      [] op.kind = "AssignBool" -> backend_visit_assign(current_value, op, "Boolean")
      [] op.kind = "AssignString" -> backend_visit_assign(current_value, op, "String")
      [] op.kind = "AssignDatetime" -> backend_visit_assign(current_value, op, "Datetime")
      [] op.kind = "LogFloats" -> backend_visit_log_floats(current_value, op)
      [] op.kind = "LogStrings" -> backend_visit_log_strings(current_value, op)
      [] op.kind = "ClearFloatLog" -> backend_visit_clear_float_log(current_value, op)
      [] op.kind = "ClearStringLog" -> backend_visit_clear_string_log(current_value, op)
      [] op.kind = "ConfigFloatSeries" -> backend_visit_config_float_series(current_value, op)
      [] op.kind = "AddStrings" -> backend_visit_add_strings(current_value, op)
      [] op.kind = "RemoveStrings" -> backend_visit_remove_strings(current_value, op)
      [] op.kind = "ClearStringSet" -> backend_visit_clear_string_set(current_value, op)
      [] op.kind = "DeleteAttribute" -> backend_visit_delete_attribute(current_value, op)

\* run.set(path, value) and run.pop(path) of ContainerStructure, at a path
\* that holds an attribute or nothing.
container_set(structure, path, value) == [structure EXCEPT ![path] = value]
container_pop(structure, path) == [structure EXCEPT ![path] = NoValue]

\* path is a proper prefix of other.
IsProperPrefix(path, other) ==
    Len(path) < Len(other) /\ SubSeq(other, 1, Len(path)) = path

\* What run.get(path) returns for a path with children: a dict.
Namespace == [type |-> "dict"]

\* run.get(path) of ContainerStructure: the attribute at the path, a dict when
\* attributes lie below the path, None when the path holds nothing.
container_get(structure, path) ==
    IF \E other \in DOMAIN structure :
           IsProperPrefix(path, other) /\ structure[other] # NoValue
    THEN Namespace
    ELSE structure[path]

\* Variant: the value found is handed to the visitor without looking at what
\* it is.
execute_operation_unchecked(structure, op) ==
    LET visited == backend_visit(structure[op.path], op)
    IN  IF visited.exc # "None" THEN [store |-> structure, exc |-> visited.exc]
        ELSE IF visited.val # NoValue
        THEN [store |-> container_set(structure, op.path, visited.val), exc |-> "None"]
        ELSE [store |-> container_pop(structure, op.path), exc |-> "None"]

\* _execute_operation: the store it leaves and the exception it raises. The
\* store holds Values only, so a val that is neither a Value nor a dict, the
\* InternalClientError branch, does not arise.
execute_operation(structure, op) ==
    LET val == container_get(structure, op.path)
    IN  IF val # NoValue /\ isinstance(val, "dict")
        THEN [store |-> structure, exc |-> "MetadataInconsistency"]
        ELSE LET visited == backend_visit(val, op)
             IN  IF visited.exc # "None" THEN [store |-> structure, exc |-> visited.exc]
                 ELSE IF visited.val # NoValue
                 THEN [store |-> container_set(structure, op.path, visited.val),
                       exc |-> "None"]
                 ELSE [store |-> container_pop(structure, op.path), exc |-> "None"]

\* _get_attribute: the value found, or the exception raised.
get_attribute(structure, path, expected_type) ==
    LET value == structure[path]
    IN  IF value = NoValue
        THEN [done |-> TRUE, path |-> path, exc |-> "MetadataInconsistency",
              msg |-> "not found", value |-> NoValue]
        ELSE IF isinstance(value, expected_type)
        THEN [done |-> TRUE, path |-> path, exc |-> "None", msg |-> "", value |-> value]
        ELSE [done |-> TRUE, path |-> path, exc |-> "MetadataInconsistency",
              msg |-> "is not", value |-> NoValue]

\* Variant: the loop of execute_operations stops at the first failure.
ExecuteOperation_stops_at_failure(op) ==
    /\ ~returned.done
    /\ Len(attempted) < MaxBatch
    /\ LET executed == IF failures = <<>> THEN execute_operation(store, op)
                       ELSE [store |-> store, exc |-> "None"]
       IN  /\ store' = executed.store
           /\ failures' = IF executed.exc # "None"
                          THEN Append(failures, [exc |-> executed.exc, op |-> op])
                          ELSE failures
    /\ attempted' = Append(attempted, op)
    /\ UNCHANGED <<returned, read>>
    /\ UNCHANGED pvars
    /\ UNCHANGED dvars
    /\ UNCHANGED svars

\* execute_operations: one iteration of "for op in operations"; a
\* NeptuneException is caught and appended to the result.
ExecuteOperation(op) ==
    /\ ~returned.done
    /\ Len(attempted) < MaxBatch
    /\ LET executed == execute_operation(store, op)
       IN  /\ store' = executed.store
           /\ failures' = IF executed.exc # "None"
                          THEN Append(failures, [exc |-> executed.exc, op |-> op])
                          ELSE failures
    /\ attempted' = Append(attempted, op)
    /\ UNCHANGED <<returned, read>>
    /\ UNCHANGED pvars
    /\ UNCHANGED dvars
    /\ UNCHANGED svars

\* execute_operations: return len(operations), result
ExecuteReturn ==
    /\ ~returned.done
    /\ returned' = [done |-> TRUE, count |-> Len(attempted), errors |-> failures]
    /\ UNCHANGED <<store, attempted, failures, read>>
    /\ UNCHANGED pvars
    /\ UNCHANGED dvars
    /\ UNCHANGED svars

\* A get_*_attribute call made once execute_operations() has returned.
GetAttribute(path, expected_type) ==
    /\ returned.done
    /\ read' = get_attribute(store, path, expected_type)
    /\ UNCHANGED <<store, attempted, failures, returned>>
    /\ UNCHANGED pvars
    /\ UNCHANGED dvars
    /\ UNCHANGED svars

\* The operations of the batch.
BackendOps ==
    {AssignFloat(PathA, 1), AssignFloat(PathA, 2), AssignString(PathA, 1),
     LogFloats(PathA, <<1>>), AddStrings(PathA, {1, 2}), AddStrings(PathA, {3}),
     RemoveStrings(PathA, {1}), DeleteAttribute(PathA),
     AssignString(PathADash, 1), RemoveStrings(PathADash, {1})}

\* The types the reads expect.
ReadTypes == {"Float", "StringSet"}

BackendSpecInit ==
    /\ PreprocessorInit
    /\ SyncInit
    /\ DaemonConstructed(1, FALSE)
    /\ BackendInit

NextBackend ==
    \/ \E op \in BackendOps : ExecuteOperation(op)
    \/ ExecuteReturn
    \/ \E path \in BackendPaths, expected_type \in ReadTypes : GetAttribute(path, expected_type)

SpecBackend == BackendSpecInit /\ [][NextBackend]_vars

\* A step that is one iteration of the loop of execute_operations().
Attempt == Len(attempted') = Len(attempted) + 1

\* The operation that step goes through.
AttemptedOp == attempted'[Len(attempted')]

\* The type of value each kind of operation works on.
TypeOfKind(kind) ==
    CASE kind = "AssignFloat" -> "Float"
      [] kind = "AssignInt" -> "Integer"
      [] kind = "AssignBool" -> "Boolean"
      [] kind = "AssignString" -> "String"
      [] kind = "AssignDatetime" -> "Datetime"
      [] kind \in {"LogFloats", "ClearFloatLog", "ConfigFloatSeries"} -> "FloatSeries"
      [] kind \in {"LogStrings", "ClearStringLog"} -> "StringSeries"
      [] kind \in {"AddStrings", "RemoveStrings", "ClearStringSet"} -> "StringSet"
      [] OTHER -> "None"

\* The path of op holds a value of another type than op works on, or op
\* deletes and the path holds nothing.
Inconsistent(structure, op) ==
    IF op.kind = "DeleteAttribute" THEN structure[op.path] = NoValue
    ELSE structure[op.path] # NoValue /\ structure[op.path].type # TypeOfKind(op.kind)

\* C27: every iteration either fails, leaving the store as it was and adding
\* one MetadataInconsistency to the result, or applies its operation to the
\* operation's path alone, whatever failed before it; the count returned is
\* the number of operations gone through and the errors are those recorded.
C27_EveryOperationAttempted ==
    [][/\ (Attempt /\ Inconsistent(store, AttemptedOp)) =>
              /\ store' = store
              /\ Len(failures') = Len(failures) + 1
              /\ failures'[Len(failures')].exc = "MetadataInconsistency"
              /\ failures'[Len(failures')].op = AttemptedOp
       /\ (Attempt /\ ~Inconsistent(store, AttemptedOp)) =>
              /\ failures' = failures
              /\ \A p \in BackendPaths \ {AttemptedOp.path} : store'[p] = store[p]
              /\ store'[AttemptedOp.path].type = TypeOfKind(AttemptedOp.kind)
              /\ AttemptedOp.kind \in AssignKinds =>
                     store'[AttemptedOp.path].value = AttemptedOp.value
       /\ (returned'.done /\ ~returned.done) =>
              /\ returned'.count = Len(attempted)
              /\ returned'.errors = failures]_vars

\* An Assign of another type failed between two Assigns that were applied.
C27_Witness ==
    /\ returned.done
    /\ attempted = <<AssignFloat(PathA, 1), AssignString(PathA, 1), AssignFloat(PathA, 2)>>
    /\ returned.count = 3
    /\ Len(returned.errors) = 1
    /\ store[PathA] = Float(2)

\* C28: while a path holds a value, the type of the value does not change.
C28_TypeFixedUntilDeleted ==
    [][\A p \in BackendPaths :
           (store[p] # NoValue /\ store'[p] # NoValue) => store'[p].type = store[p].type]_vars

\* An Assign of another type was refused, and after a Delete the path holds a
\* value of that type.
C28_Witness ==
    /\ attempted = <<AssignFloat(PathA, 1), AssignString(PathA, 1), DeleteAttribute(PathA),
                     AssignString(PathA, 1)>>
    /\ Len(failures) = 1
    /\ store[PathA] = String(1)

\* C29: a Delete of a defined attribute removes it and a read of the path then
\* fails as not found; a Delete of an undefined one fails with
\* MetadataInconsistency and leaves the store as it was.
C29_DeleteRemovesOrFails ==
    [][/\ (Attempt /\ AttemptedOp.kind = "DeleteAttribute") =>
              IF store[AttemptedOp.path] # NoValue
              THEN /\ store'[AttemptedOp.path] = NoValue
                   /\ failures' = failures
                   /\ \A t \in ReadTypes :
                          get_attribute(store', AttemptedOp.path, t).exc = "MetadataInconsistency"
              ELSE /\ store' = store
                   /\ Len(failures') = Len(failures) + 1
                   /\ failures'[Len(failures')].exc = "MetadataInconsistency"
       /\ (read' # read /\ store[read'.path] = NoValue) =>
              /\ read'.exc = "MetadataInconsistency"
              /\ read'.msg = "not found"]_vars

\* A read of a path that was assigned and then deleted has failed.
C29_Witness ==
    /\ attempted = <<AssignFloat(PathA, 1), DeleteAttribute(PathA)>>
    /\ failures = <<>>
    /\ read.done
    /\ read.path = PathA
    /\ read.exc = "MetadataInconsistency"

\* C30: AddStrings leaves the union and RemoveStrings the difference of the
\* stored set and the operation's values; on an unset path AddStrings leaves
\* the set of its values and RemoveStrings leaves the store as it was.
C30_SetUnionDifference ==
    [][(Attempt /\ AttemptedOp.kind \in {"AddStrings", "RemoveStrings"}
               /\ ~Inconsistent(store, AttemptedOp)) =>
          LET path == AttemptedOp.path
              old == IF store[path] = NoValue THEN {} ELSE store[path].items
          IN  IF AttemptedOp.kind = "AddStrings"
              THEN store'[path] = StringSet(old \cup AttemptedOp.items)
              ELSE IF store[path] = NoValue THEN store' = store
              ELSE store'[path] = StringSet(old \ AttemptedOp.items)]_vars

\* The operations of a batch on series and sets.
BackendSeriesOps ==
    SeriesOps \cup {ConfigFloatSeries(PathA, 4, 5, 6), ClearStringSet(PathA),
                    AddStrings(PathA, {1})}

NextBackendSeries ==
    \/ \E op \in BackendSeriesOps : ExecuteOperation(op)
    \/ ExecuteReturn
    \/ \E expected_type \in {"FloatSeries", "StringSeries"} : GetAttribute(PathA, expected_type)

SpecBackendSeries == BackendSpecInit /\ [][NextBackendSeries]_vars

\* The path of the operation gone through holds a float series before the step.
OnFloatSeries == Attempt /\ store[AttemptedOp.path].type = "FloatSeries"

\* C31: LogFloats and ClearFloatLog on a stored float series keep its min, max
\* and unit, ConfigFloatSeries keeps its values and sets min, max and unit, and
\* the metadata of a series that stays stored changes at no other step.
C31_MetadataOnlyByConfig ==
    [][/\ (OnFloatSeries /\ AttemptedOp.kind \in {"LogFloats", "ClearFloatLog"}) =>
              /\ store'[AttemptedOp.path].type = "FloatSeries"
              /\ store'[AttemptedOp.path].config = store[AttemptedOp.path].config
       /\ (OnFloatSeries /\ AttemptedOp.kind = "ConfigFloatSeries") =>
              /\ store'[AttemptedOp.path].values = store[AttemptedOp.path].values
              /\ store'[AttemptedOp.path].config = AttemptedOp.values
       /\ \A p \in BackendPaths :
              (/\ store[p].type = "FloatSeries"
               /\ store'[p].type = "FloatSeries"
               /\ store'[p].config # store[p].config) =>
                  (Attempt /\ AttemptedOp.kind = "ConfigFloatSeries" /\ AttemptedOp.path = p)]_vars

\* A configured series was logged to and then cleared, and keeps its metadata.
C31_Witness ==
    /\ attempted = <<ConfigFloatSeries(PathA, 1, 2, 3), LogFloats(PathA, <<1>>),
                     ClearFloatLog(PathA)>>
    /\ failures = <<>>
    /\ store[PathA] = FloatSeries(<<>>, <<1, 2, 3>>)

\* The series type of a Log or Clear kind, "None" for the other kinds.
SeriesTypeOfKind(kind) ==
    CASE kind \in {"LogFloats", "ClearFloatLog"} -> "FloatSeries"
      [] kind \in {"LogStrings", "ClearStringLog"} -> "StringSeries"
      [] OTHER -> "None"

\* C32: a Log on an unset path leaves a series of exactly the logged values, a
\* Log on a series of its type leaves the old values followed by the logged
\* ones; a Clear of a series or set, or of an unset path, leaves an empty one
\* of the type the Clear implies.
C32_LogAppendsClearEmpties ==
    [][(Attempt /\ ~Inconsistent(store, AttemptedOp)) =>
          LET op == AttemptedOp
              old == store[op.path]
              new == store'[op.path]
          IN  /\ op.kind \in LogKinds =>
                     /\ new.type = SeriesTypeOfKind(op.kind)
                     /\ new.values = IF old = NoValue THEN op.values
                                     ELSE old.values \o op.values
              /\ op.kind \in ClearLogKinds =>
                     /\ new.type = SeriesTypeOfKind(op.kind)
                     /\ new.values = <<>>
              /\ op.kind = "ClearStringSet" =>
                     /\ new.type = "StringSet"
                     /\ new.items = {}]_vars

\* Two Logs have left their values in order.
C32_Witness ==
    /\ attempted = <<LogStrings(PathA, <<2, 3>>), LogStrings(PathA, <<1>>)>>
    /\ store[PathA] = StringSeries(<<2, 3, 1>>)

\* C33: once an Assign of v has been applied, a read of its path that expects
\* the Assign's type finds v; after Add({1, 2}) then Remove({1}) on a path that
\* was unset, a read that expects a set finds {2}.
C33_RoundTrip ==
    [][/\ (Attempt /\ AttemptedOp.kind \in AssignKinds /\ ~Inconsistent(store, AttemptedOp)) =>
              LET found == get_attribute(store', AttemptedOp.path, TypeOfKind(AttemptedOp.kind))
              IN  /\ found.exc = "None"
                  /\ found.value.value = AttemptedOp.value
       /\ (/\ attempted = <<AddStrings(PathA, {1, 2}), RemoveStrings(PathA, {1})>>
           /\ read' # read
           /\ read'.path = PathA) =>
              /\ get_attribute(store, PathA, "StringSet").exc = "None"
              /\ read'.exc = "None" => read'.value.items = {2}]_vars

\* The set left by Add({1, 2}) then Remove({1}) has been read.
C33_Witness ==
    /\ attempted = <<AddStrings(PathA, {1, 2}), RemoveStrings(PathA, {1})>>
    /\ read.done
    /\ read.exc = "None"
    /\ read.value = StringSet({2})

\* A container in which an earlier call has assigned the attribute at PathAB,
\* so that PathA denotes a namespace.
NamespaceInit ==
    /\ PreprocessorInit
    /\ SyncInit
    /\ DaemonConstructed(1, FALSE)
    /\ store = [p \in BackendPaths |-> IF p = PathAB THEN Float(1) ELSE NoValue]
    /\ attempted = <<>>
    /\ failures = <<>>
    /\ returned = NotReturned
    /\ read = NotRead

\* Operations of every kind on the namespace, and an Assign below it.
NamespaceOps == AnyOps \cup {AssignFloat(PathAB, 2)}

NextNamespace ==
    \/ \E op \in NamespaceOps : ExecuteOperation(op)
    \/ ExecuteReturn

SpecNamespace == NamespaceInit /\ [][NextNamespace]_vars

\* The path has children: an attribute is stored below it.
IsNamespace(structure, path) ==
    \E other \in BackendPaths : IsProperPrefix(path, other) /\ structure[other] # NoValue

\* C34: an operation of any kind on a path that denotes a namespace leaves the
\* store as it was and is recorded as one MetadataInconsistency in the result
\* of execute_operations.
C34_NamespaceRejected ==
    [][(Attempt /\ IsNamespace(store, AttemptedOp.path)) =>
          /\ store' = store
          /\ Len(failures') = Len(failures) + 1
          /\ failures'[Len(failures')].exc = "MetadataInconsistency"
          /\ failures'[Len(failures')].op = AttemptedOp]_vars

\* A Delete and an Assign on the namespace have failed around an Assign below
\* it that was applied, and the call has returned.
C34_Witness ==
    /\ attempted = <<DeleteAttribute(PathA), AssignFloat(PathAB, 2), AssignFloat(PathA, 1)>>
    /\ returned.done
    /\ returned.count = 3
    /\ Len(returned.errors) = 2
    /\ store[PathAB] = Float(2)
    /\ store[PathA] = NoValue

\* Variant: enqueue_operation() only queues the operation; nothing hands it to
\* the backend before the call returns.
EnqueueCall_only_queues(t, op, wait) ==
    /\ sync_call[t].pc = "idle"
    /\ Len(enqueued) < MaxOps
    /\ enqueued' = Append(enqueued, op)
    /\ sync_call' = [sync_call EXCEPT ![t] = [pc |-> "executed", op |-> op, wait |-> wait]]
    /\ UNCHANGED <<batches, completed>>
    /\ UNCHANGED pvars
    /\ UNCHANGED dvars
    /\ UNCHANGED bvars

\* A producer calls enqueue_operation(op, wait).
EnqueueCall(t, op, wait) ==
    /\ sync_call[t].pc = "idle"
    /\ Len(enqueued) < MaxOps
    /\ enqueued' = Append(enqueued, op)
    /\ sync_call' = [sync_call EXCEPT ![t] = [pc |-> "called", op |-> op, wait |-> wait]]
    /\ UNCHANGED <<batches, completed>>
    /\ UNCHANGED pvars
    /\ UNCHANGED dvars
    /\ UNCHANGED bvars

\* self._backend.execute_operations([op]): the backend is given the list that
\* holds the operation of the call, whatever wait is.
SyncExecuteOperations(t) ==
    /\ sync_call[t].pc = "called"
    /\ batches' = Append(batches, <<sync_call[t].op>>)
    /\ sync_call' = [sync_call EXCEPT ![t].pc = "executed"]
    /\ UNCHANGED <<enqueued, completed>>
    /\ UNCHANGED pvars
    /\ UNCHANGED dvars
    /\ UNCHANGED bvars

\* enqueue_operation() returns to the producer.
EnqueueReturn(t) ==
    /\ sync_call[t].pc = "executed"
    /\ completed' = Append(completed, sync_call[t].op)
    /\ sync_call' = [sync_call EXCEPT ![t] = NoCall]
    /\ UNCHANGED <<enqueued, batches>>
    /\ UNCHANGED pvars
    /\ UNCHANGED dvars
    /\ UNCHANGED bvars

\* The operations a producer may enqueue as the n-th one; the value tells the
\* calls apart.
SyncOps(n) == {AssignFloat(PathA, n), LogFloats(PathAB, <<n>>)}

SyncSpecInit ==
    /\ PreprocessorInit
    /\ SyncInit
    /\ DaemonConstructed(1, FALSE)
    /\ BackendInit

NextSync ==
    \/ \E t \in Producers, wait \in BOOLEAN :
           \E op \in SyncOps(Len(enqueued) + 1) : EnqueueCall(t, op, wait)
    \/ \E t \in Producers : SyncExecuteOperations(t)
    \/ \E t \in Producers : EnqueueReturn(t)

SpecSync == SyncSpecInit /\ [][NextSync]_vars

\* The positions in batches of the lists that hold op.
BatchesOf(op) == {i \in DOMAIN batches : \E k \in DOMAIN batches[i] : batches[i][k] = op}

\* The call of enqueue_operation() by t returns in this step.
EnqueueReturns(t) == sync_call[t].pc = "executed" /\ sync_call'[t].pc = "idle"

\* C35: when enqueue_operation(op, wait) returns, the backend has been given
\* op exactly once, in a list of its own, and has been given every operation
\* whose enqueue_operation() had returned before; the backend is given the
\* lists one after another, each after the lists of the calls that returned
\* before it was given. This holds for wait = TRUE and for wait = FALSE alike.
C35_ExecutedBeforeReturn ==
    [][/\ \A t \in Producers : EnqueueReturns(t) =>
             LET op == sync_call[t].op
             IN  /\ \E i \in DOMAIN batches : BatchesOf(op) = {i} /\ batches[i] = <<op>>
                 /\ \A j \in DOMAIN completed : BatchesOf(completed[j]) # {}
       /\ batches' # batches =>
             /\ Len(batches') = Len(batches) + 1
             /\ SubSeq(batches', 1, Len(batches)) = batches
             /\ Len(batches'[Len(batches')]) = 1
             /\ \A j \in DOMAIN completed :
                    \A i \in BatchesOf(completed[j]) : i < Len(batches')]_vars

\* Four calls have returned, and the backend was given the four operations
\* one by one in the order of the calls.
C35_Witness ==
    /\ Len(completed) = 4
    /\ completed = enqueued
    /\ batches = [i \in 1..4 |-> <<enqueued[i]>>]
    /\ \A t \in Producers : sync_call[t].pc = "idle"

\* The store execute_operations() leaves: the operations are executed one at a
\* time in the order of the list, a failed one leaving the store as it was.
RECURSIVE execute_all(_, _)
execute_all(structure, ops) ==
    IF ops = <<>> THEN structure
    ELSE execute_all(execute_operation(structure, Head(ops)).store, Tail(ops))

\* A container with every path unset.
EmptyStore == [p \in BackendPaths |-> NoValue]

\* Operations of every kind but CopyAttribute on one path, and a scalar and a
\* Delete on a second path that is no prefix of the first.
RefineOps ==
    {AssignFloat(PathA, 1), AssignFloat(PathA, 2), AssignString(PathA, 1),
     LogFloats(PathA, <<1>>), LogStrings(PathA, <<1>>), ClearFloatLog(PathA),
     ClearStringLog(PathA), ConfigFloatSeries(PathA, 1, 2, 3), AddStrings(PathA, {1, 2}),
     RemoveStrings(PathA, {1}), ClearStringSet(PathA), DeleteAttribute(PathA),
     AssignFloat(PathADash, 1), DeleteAttribute(PathADash)}

NextRefine ==
    \/ \E op \in RefineOps : Process(op)
    \/ GetOperations

SpecRefine == Init /\ [][NextRefine]_vars

\* get_operations() has returned the batch of a sequence that process() has
\* folded completely.
FoldedAndEmitted ==
    /\ result.returned
    /\ raised = "None"
    /\ processed_ops_count = Len(operations)

\* C36: for a sequence without CopyAttribute that process() has folded
\* completely, executing the emitted batch on a store with every path unset
\* leaves each path with the value that executing the sequence itself, one
\* operation at a time in arrival order, leaves it with.
C36_BatchRefinesSequence ==
    FoldedAndEmitted =>
        execute_all(EmptyStore, result.other_operations) = execute_all(EmptyStore, operations)

\* Four operations on two paths were folded into a batch of two, and both
\* executions leave a set on the first path and a number on the second.
C36_Witness ==
    /\ FoldedAndEmitted
    /\ operations = <<AddStrings(PathA, {1, 2}), AssignFloat(PathADash, 1),
                      RemoveStrings(PathA, {1}), AssignFloat(PathA, 1)>>
    /\ Len(result.other_operations) = 3
    /\ Len(result.errors) = 1
    /\ execute_all(EmptyStore, result.other_operations)[PathA] = StringSet({2})
    /\ execute_all(EmptyStore, operations)[PathADash] = Float(1)

\* C37: folding an operation that is no CopyAttribute raises nothing and
\* counts the operation, in every accumulator state that inputs without
\* CopyAttribute reach, a Delete folded after a lone ConfigFloatSeries included.
C37_FoldsWithoutRaising ==
    [][(Folding /\ FoldedOp.kind # "CopyAttribute") =>
          /\ raised' = "None"
          /\ processed_ops_count' = processed_ops_count + 1]_vars

\* The daemon thread beside threads that make every call, each thread and
\* the loop scheduled fairly.
SpecDaemonFair == DaemonInit /\ [][NextDaemon]_vars /\ FairDaemon

\* The caller is inside pause().
InPause(c) == caller_pc[c] \in {"pause", "pause_wait", "pause_waiting", "pause_notified"}

\* C38: every pause() call made on a started daemon returns, whatever the
\* other threads call meanwhile and also when run() ends while the caller
\* waits for the notification.
C38_PauseReturns ==
    \A c \in Callers : InPause(c) ~> (caller_pc[c] = "idle")

\* The accumulators process() leaves after folding ops, none of which raises.
RECURSIVE process_all(_, _)
process_all(accs, ops) ==
    IF ops = <<>> THEN accs
    ELSE process_all(process_op(accs, Head(ops)).accs, Tail(ops))

\* The operations of ops on one path, in their order in ops.
RECURSIVE PathSubsequence(_, _)
PathSubsequence(ops, path) ==
    IF ops = <<>> THEN <<>>
    ELSE IF Head(ops).path = path
    THEN <<Head(ops)>> \o PathSubsequence(Tail(ops), path)
    ELSE PathSubsequence(Tail(ops), path)

\* The interleaving of the per-path subsequences of ops that takes the paths
\* one after another.
PathByPath(ops) ==
    PathSubsequence(ops, PathADash) \o PathSubsequence(ops, PathAB)
        \o PathSubsequence(ops, PathA)

\* C39: folding an operation leaves the accumulator of every other path as it
\* was, and the batch of a sequence folded without an exception is the batch
\* of the interleaving that takes its per-path subsequences one path after
\* another, so every interleaving of the same subsequences has that batch.
C39_PathsIndependent ==
    [][Folding =>
          /\ \A p \in Paths :
                 p # FoldedOp.path => AccOf(accumulators', p) = AccOf(accumulators, p)
          /\ raised' = "None" =>
                 get_operations(accumulators') =
                     get_operations(process_all(<<>>, PathByPath(operations')))]_vars

\* Operations on three paths arrived interleaved, the path that sorts last
\* first, and were folded into a batch of four.
C39_Witness ==
    /\ operations = <<AssignFloat(PathADash, 1), AssignFloat(PathA, 1),
                      AssignString(PathAB, 1), DeleteAttribute(PathA)>>
    /\ raised = "None"
    /\ Len(accumulators) = 3
    /\ PathByPath(operations) # operations
    /\ Len(get_operations(accumulators).other_operations) = 4

\* The kinds of the operations of a list, in order.
KindsOf(ops) == [i \in DOMAIN ops |-> ops[i].kind]

\* The lists a series path may hold as modify_ops, by kind.
SeriesShapes(log_op_class, clear_op_class) ==
    {<<>>, <<log_op_class>>, <<clear_op_class>>, <<clear_op_class, log_op_class>>}

\* C40: on a path whose inferred type is a series type, modify_ops is empty,
\* one Log, one Clear, or a Clear followed by one Log, each of the path's
\* series type, and the log modifier never raises InternalClientError.
C40_SeriesShape ==
    /\ raised # "InternalClientError"
    /\ \A i \in DOMAIN accumulators :
           LET acc == accumulators[i].acc
           IN  /\ acc.type = DataType_FLOAT_SERIES =>
                      KindsOf(acc.modify_ops) \in SeriesShapes("LogFloats", "ClearFloatLog")
               /\ acc.type = DataType_STRING_SERIES =>
                      KindsOf(acc.modify_ops) \in SeriesShapes("LogStrings", "ClearStringLog")

\* A Log folded onto [Clear, Log] was merged into the held Log.
C40_Witness ==
    /\ operations = <<LogFloats(PathA, <<1>>), ClearFloatLog(PathA), LogFloats(PathA, <<1>>),
                      LogFloats(PathA, <<2, 3>>)>>
    /\ raised = "None"
    /\ AccOf(accumulators, PathA).type = DataType_FLOAT_SERIES
    /\ AccOf(accumulators, PathA).modify_ops =
           <<ClearFloatLog(PathA), LogFloats(PathA, <<1, 2, 3>>)>>

====
